---- MODULE Spec2Model ----
(***************************************************************************)
(* Messaging and settings-synchronisation core of the browser extension    *)
(* template: the typed senders (sendMessage, sendMessageToTab,             *)
(* broadcastToAllTabs), the dispatch entry point (createMessageListener),  *)
(* the settings store helpers (getStorageValue .. updateUserSettings) and  *)
(* the background coordinator's messageHandlers.                           *)
(*                                                                         *)
(* JavaScript values are modelled as TLA+ records: an object is a function *)
(* from its own keys, `undefined' and `null' are the one-field records     *)
(* Undefined and Null, a thrown value is a record saying whether it is an  *)
(* Error instance and, if so, its message.                                 *)
(***************************************************************************)
EXTENDS Integers, Sequences, FiniteSets, TLC

\* ------------------------------------------------------------------ bounds

\* Requests the peers issue to the coordinator in one run of Spec.
MaxRequests == 2
\* Requests issued in one run of the fair specification FairSpec.
MaxLiveRequests == 1
\* Tabs chrome.tabs.query({}) enumerates in one run.
MaxTabs == 3
\* Store operations the callers run in one run of SpecStore.
MaxStoreOps == 3
\* Writes of the storage areas in one run of SpecChanges.
MaxChanges == 2
\* Calls of onUserSettingsChange in one run.
MaxSubscribers == 2
\* Requests the coordinator handles in one run of SpecHandlers.
MaxHandled == 1
\* Requests the coordinator serves in one run of SpecServed.
MaxServed == 2
\* Settings operations run in one run of SpecLifecycle.
MaxLifecycleOps == 4
\* Writes of the storage areas in one run of the fair specification
\* FairChanges.
MaxFairChanges == 1
\* The operations the popup and the options page start in a run of SpecPages.
MaxPageOps == 2
\* The initialize() calls made in one content-script context.
MaxInitCalls == 2
\* Update requests, and resets, in one run of SpecWrites.
MaxWrites == 1

\* ------------------------------------------------------- JavaScript values

Undefined == [undefined |-> TRUE]
Null == [null |-> TRUE]

\* A thrown value: `new Error(m)' or something that is no Error instance.
ErrorOf(m) == [isError |-> TRUE, message |-> m]
NonError == [isError |-> FALSE]

\* error instanceof Error ? error.message : fallback
ErrorMessage(error, fallback) ==
  IF error.isError THEN error.message ELSE fallback

\* { ...a, ...b }: the own keys of both, b's value winning per top-level key.
\* Spreading undefined contributes no key.
OwnKeys(o) == IF o = Undefined THEN {} ELSE DOMAIN o

ShallowMerge(a, b) ==
  [k \in OwnKeys(a) \cup OwnKeys(b) |-> IF k \in OwnKeys(b) THEN b[k] ELSE a[k]]

\* ------------------------------------------------------------ shared types

DEFAULT_USER_SETTINGS ==
  [tier |-> "free",
   enabled |-> TRUE,
   theme |-> "system",
   notifications |-> [enabled |-> TRUE, sound |-> FALSE],
   preferences |-> <<>>]

SettingsKeys == DOMAIN DEFAULT_USER_SETTINGS

FeatureKeys ==
  {"basic_feature", "advanced_analytics", "export_data", "custom_themes",
   "priority_support"}

FEATURE_ACCESS ==
  [f \in FeatureKeys |-> IF f = "basic_feature" THEN "free" ELSE "pro"]

\* hasFeatureAccess granting a feature to the tier it is listed under only.
hasFeatureAccessOwnTier(tier, feature) == tier = FEATURE_ACCESS[feature]

hasFeatureAccess(tier, feature) ==
  LET requiredTier == FEATURE_ACCESS[feature]
  IN  IF requiredTier = "free" THEN TRUE ELSE tier = "pro"

MessageTypes ==
  {"GET_SETTINGS", "UPDATE_SETTINGS", "GET_TAB_INFO", "CONTENT_SCRIPT_READY",
   "PERFORM_ACTION", "CHECK_FEATURE_ACCESS"}

\* ------------------------------------------------------- the inputs drawn

\* Partial<UserSettings> payloads of UPDATE_SETTINGS.
Updates ==
  {[tier |-> "pro"], [theme |-> "dark"], [notifications |-> [enabled |-> FALSE]]}

\* Values the settings key may hold when the coordinator starts: nothing, or
\* a record an earlier run persisted.
InitialStored ==
  {Undefined, [DEFAULT_USER_SETTINGS EXCEPT !.theme = "light"]}

\* The messages the peers send.
Messages ==
  {[type |-> "GET_SETTINGS"], [type |-> "GET_TAB_INFO"],
   [type |-> "CONTENT_SCRIPT_READY", payload |-> [url |-> "u", title |-> "t"]],
   [type |-> "PERFORM_ACTION", payload |-> [action |-> "a"]]}
  \cup {[type |-> "UPDATE_SETTINGS", payload |-> u] : u \in Updates}
  \cup {[type |-> "CHECK_FEATURE_ACCESS", payload |-> [feature |-> f]] :
          f \in {"basic_feature", "export_data"}}

\* sender.tab: absent for the popup, the tab of a content script.
ContentTab == [id |-> 7, url |-> "https://page", title |-> "Page"]
Senders == {[tab |-> Undefined], [tab |-> ContentTab]}

\* What chrome.tabs.query({active, currentWindow}) resolves to, first element.
ActiveTabs == {Undefined, [id |-> 3, url |-> "", title |-> "Active"]}

\* What a rejected runtime call throws.
TransportErrors ==
  {ErrorOf("Could not establish connection. Receiving end does not exist."),
   NonError}

\* The (message, sender) pairs the peers send: sender.tab is read by the
\* GET_TAB_INFO and CONTENT_SCRIPT_READY handlers only.
Requests ==
  {<<m, s>> \in Messages \X Senders :
     m.type \in {"GET_TAB_INFO", "CONTENT_SCRIPT_READY"} \/ s.tab = Undefined}

\* ---------------------------------------------------------------- variables

VARIABLES
  syncStore,   \* chrome.storage.sync: the value under STORAGE_KEYS.USER_SETTINGS
  version,     \* history: the number of writes of that key requests completed
  reqs,        \* the requests sent to the coordinator, in the order sent
  limit,       \* the number of requests or store operations this run issues
  handlers,    \* the handler map a listener was created with
  ls,          \* one invocation of the listener createMessageListener built
  tabs,        \* the tabs chrome.tabs.query({}) enumerates, as an array
  snd,         \* one direct call of sendMessage or sendMessageToTab
  bc,          \* one call of broadcastToAllTabs
  cache,       \* chrome.storage.sync: the value under STORAGE_KEYS.CACHE
  localStore,  \* chrome.storage.local: the value under each key
  op,          \* the store operation a caller ran last, with its result
  prev,        \* history: the operation run before it
  nops,        \* history: the number of store operations run
  writers,     \* history: the contexts that wrote the settings key
  log,         \* history: the store operations run, where a run keeps them
  onChanged,   \* chrome.storage.onChanged: the listeners registered
  subs,        \* the calls of onUserSettingsChange, one per subscriber
  pending,     \* change events the store reported, not yet dispatched
  gate,        \* the popup: the tier it holds and the features it gated
  ui,          \* the popup and the options page: their copy of the settings
  cs           \* one content-script context and its initialize() calls

coordinatorVars == <<syncStore, version, reqs, limit>>
listenerVars == <<handlers, ls>>
senderVars == <<tabs, snd, bc>>
storeVars == <<cache, localStore, op, prev, nops, writers, log>>
changeVars == <<onChanged, subs, pending>>
peerVars == <<ui, cs>>

vars ==
  <<syncStore, version, reqs, limit, handlers, ls, tabs, snd, bc,
    cache, localStore, op, prev, nops, writers, log, onChanged, subs, pending,
    gate, ui, cs>>

\* ------------------------------------------------------------- message senders

\* The catch block answering without an error field.
SendFailureNoError(error) == [success |-> FALSE]

\* The catch block of sendMessage / sendMessageToTab.
SendFailure(error) ==
  [success |-> FALSE, error |-> ErrorMessage(error, "Unknown error")]

\* How an async function's promise settles.
Fulfilled(v) == [settled |-> "fulfilled", value |-> v]
Rejected(e) == [settled |-> "rejected", reason |-> e]

\* sendMessage without its try/catch: a failed runtime call rejects the promise.
sendMessageNoCatch(outcome) ==
  IF outcome.ok THEN Fulfilled(outcome.response) ELSE Rejected(outcome.error)

\* sendMessageToTab without its try/catch.
sendMessageToTabNoCatch(outcome) ==
  IF outcome.ok THEN Fulfilled(outcome.response) ELSE Rejected(outcome.error)

\* sendMessage / sendMessageToTab: the awaited runtime call either resolves
\* with the listener's response or rejects with `error'; the try/catch turns a
\* rejection into a failed response, so the returned promise fulfils.
\* outcome: [ok |-> TRUE, response |-> r] or [ok |-> FALSE, error |-> e].
sendMessage(outcome) ==
  IF outcome.ok
    THEN Fulfilled(outcome.response)
    ELSE Fulfilled(SendFailure(outcome.error))

sendMessageToTab(outcome) ==
  IF outcome.ok
    THEN Fulfilled(outcome.response)
    ELSE Fulfilled(SendFailure(outcome.error))

\* ------------------------------------------------------------ settings store

\* getStorageValue(key, defaultValue): got is what chrome.storage.sync.get did,
\* [ok |-> TRUE, value |-> v] (v = Undefined when the key is absent) or
\* [ok |-> FALSE] when it rejected.
getStorageValue(got, defaultValue) ==
  IF got.ok
    THEN IF got.value = Undefined \/ got.value = Null
           THEN defaultValue ELSE got.value
    ELSE defaultValue

\* getUserSettings() handing out the stored value as it is.
getUserSettingsNoMerge(got) == getStorageValue(got, DEFAULT_USER_SETTINGS)

\* getUserSettings() with the spread's operands swapped: the defaults win.
getUserSettingsDefaultsWin(got) ==
  ShallowMerge(getStorageValue(got, DEFAULT_USER_SETTINGS), DEFAULT_USER_SETTINGS)

\* getUserSettings(): the stored value merged onto the defaults.
getUserSettings(got) ==
  ShallowMerge(DEFAULT_USER_SETTINGS, getStorageValue(got, DEFAULT_USER_SETTINGS))

\* setStorageValue(key, value): TRUE when chrome.storage.sync.set resolved.
setStorageValue(setOk) == setOk

saveUserSettings(setOk) == setStorageValue(setOk)

\* updateUserSettings, line 333, merging one level below the top keys too.
NewSettingsNested(currentSettings, updates) ==
  [k \in DOMAIN currentSettings \cup DOMAIN updates |->
     IF k \notin DOMAIN updates THEN currentSettings[k]
     ELSE IF k = "notifications" /\ k \in DOMAIN currentSettings
       THEN ShallowMerge(currentSettings[k], updates[k])
       ELSE updates[k]]

\* updateUserSettings, line 334: const newSettings = {...currentSettings, ...updates}
\* updateUserSettings handing the updates alone to saveUserSettings.
NewSettingsUpdatesOnly(currentSettings, updates) == updates

NewSettings(currentSettings, updates) == ShallowMerge(currentSettings, updates)

\* updateUserSettings, line 336: return success ? newSettings : null
UpdateResult(success, newSettings) == IF success THEN newSettings ELSE Null

\* --------------------------------------------------- coordinator's handlers

\* The tags messageHandlers registers a handler under; each is an async function.
messageHandlers == MessageTypes

\* GET_SETTINGS answering from the settings an earlier request read, when
\* some request read them.
GetSettingsResponseCached(settings) ==
  LET readers == {j \in DOMAIN reqs : reqs[j].currentSettings # Undefined}
  IN  [success |-> TRUE,
       data |-> IF readers = {} THEN settings
                ELSE reqs[CHOOSE j \in readers : TRUE].currentSettings]

GetSettingsResponse(settings) == [success |-> TRUE, data |-> settings]

\* UPDATE_SETTINGS without the test of line 44.
UpdateSettingsResponseUntested(updatedSettings) ==
  [success |-> TRUE, data |-> updatedSettings]

UpdateSettingsResponse(updatedSettings) ==
  IF updatedSettings # Null
    THEN [success |-> TRUE, data |-> updatedSettings]
    ELSE [success |-> FALSE, error |-> "Failed to update settings"]

\* tab && tab.id
HasId(tab) == tab # Undefined /\ "id" \in DOMAIN tab /\ tab.id # 0

TabInfoOf(tab) == [id |-> tab.id, url |-> tab.url, title |-> tab.title]

\* GET_TAB_INFO once the active-tab query resolved to activeTab.
ActiveTabResponse(activeTab) ==
  IF HasId(activeTab)
    THEN [success |-> TRUE, data |-> TabInfoOf(activeTab)]
    ELSE [success |-> FALSE, error |-> "No active tab found"]

ContentScriptReadyResponse == [success |-> TRUE]

PerformActionResponse ==
  [success |-> TRUE, data |-> [message |-> "Action performed"]]

\* CHECK_FEATURE_ACCESS answering a refusal with its catch block's response.
CheckFeatureAccessResponseCatch(settings, feature) ==
  IF hasFeatureAccess(settings.tier, feature)
    THEN [success |-> TRUE, data |-> TRUE]
    ELSE [success |-> FALSE, error |-> "Failed to check feature access"]

\* CHECK_FEATURE_ACCESS leaving data out when access is refused.
CheckFeatureAccessResponseTruthy(settings, feature) ==
  IF hasFeatureAccess(settings.tier, feature)
    THEN [success |-> TRUE, data |-> TRUE]
    ELSE [success |-> TRUE]

CheckFeatureAccessResponse(settings, feature) ==
  [success |-> TRUE, data |-> hasFeatureAccess(settings.tier, feature)]

\* ------------------------------------------------ the dispatch entry point

\* Keys every object literal inherits from Object.prototype: the lookup
\* handlers[message.type] finds them although no handler was registered.
InheritedKeys == {"constructor", "hasOwnProperty"}

\* createMessageListener, line 193: const handler = handlers[message.type].
\* registered: the tags a handler is registered under.
\* "own": the registered handler; "inherited": a member of Object.prototype;
\* "none": undefined.
HandlerFor(registered, type) ==
  IF type \in registered THEN "own"
  ELSE IF type \in InheritedKeys THEN "inherited"
  ELSE "none"

\* createMessageListener, line 211.
UnknownTypeResponse(type) ==
  [success |-> FALSE, error |-> "Unknown message type: " \o type]

\* The .catch callback of line 198-203.
RejectedResponse(error) ==
  [success |-> FALSE, error |-> ErrorMessage(error, "Unknown error")]

\* ------------------------------------------- a request to the coordinator

NewRequest(m, s) ==
  [pc |-> "sent", message |-> m, sender |-> s,
   currentSettings |-> Undefined, readOk |-> FALSE,
   readVer |-> -1, writeVer |-> -1,
   updated |-> Undefined, response |-> Undefined]

Ids == 1..Len(reqs)

Settle(i, resp) ==
  reqs' = [reqs EXCEPT ![i].pc = "settled", ![i].response = resp]

\* The promise sendMessage returned to the peer settles as `s'.
Returned(i, s) ==
  reqs' = [reqs EXCEPT ![i].pc = IF s.settled = "fulfilled" THEN "resolved" ELSE "rejected",
                       ![i].response = IF s.settled = "fulfilled" THEN s.value ELSE Undefined]

\* A peer calls sendMessage(message): chrome.runtime.sendMessage is in flight.
Send(m, s) ==
  /\ Len(reqs) < limit
  /\ reqs' = Append(reqs, NewRequest(m, s))
  /\ UNCHANGED <<syncStore, version, limit, listenerVars, senderVars, gate, peerVars, storeVars, changeVars>>

\* chrome.runtime.sendMessage rejects (no receiving end, serialisation error):
\* sendMessage's catch block turns the error into a failed response.
TransportFail(i, error) ==
  /\ reqs[i].pc = "sent"
  /\ Returned(i, sendMessage([ok |-> FALSE, error |-> error]))
  /\ UNCHANGED <<syncStore, version, limit, listenerVars, senderVars, gate, peerVars, storeVars, changeVars>>

\* Deliver with a GET_TAB_INFO handler that asks for the active tab first,
\* whatever the sender.
DeliverQueryFirst(i) ==
  LET r == reqs[i]
      type == r.message.type
  IN  /\ r.pc = "sent"
      /\ HandlerFor(messageHandlers, type) = "own"
      /\ IF type \in {"GET_SETTINGS", "UPDATE_SETTINGS", "CHECK_FEATURE_ACCESS"}
           THEN reqs' = [reqs EXCEPT ![i].pc = "reading"]
         ELSE IF type = "GET_TAB_INFO"
           THEN reqs' = [reqs EXCEPT ![i].pc = "querying"]
         ELSE IF type = "CONTENT_SCRIPT_READY"
           THEN Settle(i, ContentScriptReadyResponse)
         ELSE Settle(i, PerformActionResponse)
      /\ UNCHANGED <<syncStore, version, limit, listenerVars, senderVars, gate, peerVars, storeVars, changeVars>>

\* The runtime invokes the coordinator's listener: the handler registered under
\* the tag runs up to its first await; the listener returns true.
Deliver(i) ==
  LET r == reqs[i]
      type == r.message.type
  IN  /\ r.pc = "sent"
      /\ HandlerFor(messageHandlers, type) = "own"
      /\ IF type \in {"GET_SETTINGS", "UPDATE_SETTINGS", "CHECK_FEATURE_ACCESS"}
           THEN reqs' = [reqs EXCEPT ![i].pc = "reading"]
         ELSE IF type = "GET_TAB_INFO"
           THEN IF HasId(r.sender.tab)
                  THEN Settle(i, [success |-> TRUE, data |-> TabInfoOf(r.sender.tab)])
                  ELSE reqs' = [reqs EXCEPT ![i].pc = "querying"]
         ELSE IF type = "CONTENT_SCRIPT_READY"
           THEN Settle(i, ContentScriptReadyResponse)
         ELSE Settle(i, PerformActionResponse)
      /\ UNCHANGED <<syncStore, version, limit, listenerVars, senderVars, gate, peerVars, storeVars, changeVars>>

\* chrome.storage.sync.get settles inside getStorageValue; getUserSettings
\* merges; the handler goes on: GET_SETTINGS and CHECK_FEATURE_ACCESS answer,
\* updateUserSettings merges the updates and calls saveUserSettings.
StorageGet(i, ok) ==
  LET r == reqs[i]
      type == r.message.type
      got == IF ok THEN [ok |-> TRUE, value |-> syncStore] ELSE [ok |-> FALSE]
      settings == getUserSettings(got)
  IN  /\ r.pc = "reading"
      /\ IF type = "GET_SETTINGS"
           THEN reqs' = [reqs EXCEPT ![i].pc = "settled",
                                     ![i].currentSettings = settings,
                                     ![i].readOk = ok, ![i].readVer = version,
                                     ![i].response = GetSettingsResponse(settings)]
         ELSE IF type = "CHECK_FEATURE_ACCESS"
           THEN reqs' = [reqs EXCEPT ![i].pc = "settled",
                                     ![i].currentSettings = settings,
                                     ![i].readOk = ok, ![i].readVer = version,
                                     ![i].response =
                                        CheckFeatureAccessResponse(
                                          settings, r.message.payload.feature)]
         ELSE reqs' = [reqs EXCEPT ![i].pc = "writing",
                                   ![i].currentSettings = settings,
                                   ![i].readOk = ok, ![i].readVer = version]
      /\ UNCHANGED <<syncStore, version, limit, listenerVars, senderVars, gate, peerVars, storeVars, changeVars>>

\* updateUserSettings reading the store again when it writes: the updates laid
\* over the record persisted at that moment.
SavedSettingsFresh(i) ==
  NewSettings(getUserSettings([ok |-> TRUE, value |-> syncStore]),
              reqs[i].message.payload)

\* updateUserSettings handing saveUserSettings the updates alone.
SavedSettingsPayload(i) == reqs[i].message.payload

\* updateUserSettings, line 335: the record handed to saveUserSettings.
SavedSettings(i) ==
  NewSettings(reqs[i].currentSettings, reqs[i].message.payload)

\* chrome.storage.sync.set settles inside setStorageValue: updateUserSettings
\* returns the merged record or null, and UPDATE_SETTINGS answers.
StorageSet(i, ok) ==
  LET r == reqs[i]
      newSettings == SavedSettings(i)
      success == saveUserSettings(ok)
      updatedSettings == UpdateResult(success, newSettings)
  IN  /\ r.pc = "writing"
      /\ syncStore' = IF ok THEN newSettings ELSE syncStore
      /\ version' = IF ok THEN version + 1 ELSE version
      /\ reqs' = [reqs EXCEPT ![i].pc = "settled",
                              ![i].updated = updatedSettings,
                              ![i].writeVer = IF ok THEN version + 1 ELSE -1,
                              ![i].response = UpdateSettingsResponse(updatedSettings)]
      /\ UNCHANGED <<limit, listenerVars, senderVars, gate, peerVars, storeVars, changeVars>>

\* GET_TAB_INFO: chrome.tabs.query({active, currentWindow}) resolves with the
\* active tab (or none), or rejects.
\* outcome: [ok |-> TRUE, tab |-> t] or [ok |-> FALSE, error |-> e].
TabsQuery(i, outcome) ==
  /\ reqs[i].pc = "querying"
  /\ Settle(i, IF outcome.ok
                 THEN ActiveTabResponse(outcome.tab)
                 ELSE [success |-> FALSE,
                       error |-> ErrorMessage(outcome.error, "Failed to get tab info")])
  /\ UNCHANGED <<syncStore, version, limit, listenerVars, senderVars, gate, peerVars, storeVars, changeVars>>

\* The handler's promise resolved: result.then(sendResponse) hands the
\* response to the channel, the sender's awaited chrome.runtime.sendMessage
\* resolves with it and sendMessage returns it.
Respond(i) ==
  /\ reqs[i].pc = "settled"
  /\ Returned(i, sendMessage([ok |-> TRUE, response |-> reqs[i].response]))
  /\ UNCHANGED <<syncStore, version, limit, listenerVars, senderVars, gate, peerVars, storeVars, changeVars>>

TabsQueryOutcomes ==
  {[ok |-> TRUE, tab |-> t] : t \in ActiveTabs}
  \cup {[ok |-> FALSE, error |-> e] : e \in TransportErrors}

\* ------------------------------------- the listener of createMessageListener

\* A response a handler answers with.
HandlerResponse == [success |-> TRUE, data |-> "handled"]

\* What sendResponse throws when the channel refuses the response.
ChannelError == ErrorOf("Attempting to use a disconnected port object")

\* The handlers a map may register: a plain function returning a response or
\* throwing, or a function returning a promise that fulfils or rejects.
HandlerShapes ==
  {[kind |-> "value", response |-> HandlerResponse],
   [kind |-> "throw", error |-> ErrorOf("handler failed")],
   [kind |-> "resolves", response |-> HandlerResponse],
   [kind |-> "rejects", error |-> ErrorOf("handler failed")],
   [kind |-> "rejects", error |-> NonError]}

\* The tags the modelled maps register handlers under.
ListenerTags == {"GET_SETTINGS", "PERFORM_ACTION"}

HandlerMaps ==
  UNION {[D -> HandlerShapes] : D \in SUBSET ListenerTags}

\* The tags of the messages given to the listener.
DispatchedTypes == ListenerTags \cup {"NOT_A_REAL_TAG"} \cup InheritedKeys

IdleListener ==
  [pc |-> "idle", type |-> "", lookup |-> "none", result |-> "none",
   ret |-> "none", thrownBy |-> "none", sent |-> <<>>, sendThrew |-> 0,
   fault |-> Undefined, unhandled |-> FALSE]

\* A listener that never keeps the channel open.
KeepChannelOpenNever(resultIsPromise) == FALSE

\* createMessageListener, lines 197 and 204-207: what the listener returns once
\* the handler returned `result'.
KeepChannelOpen(resultIsPromise) == resultIsPromise

\* One invocation sendResponse(resp) that throws iff `throws': the listener's
\* record after it, when the invocation is the last thing the listener does
\* before returning `ret'.
AfterSyncSend(l, resp, throws, ret) ==
  [l EXCEPT !.pc = "done",
            !.sent = Append(l.sent, resp),
            !.sendThrew = l.sendThrew + (IF throws THEN 1 ELSE 0),
            !.ret = IF throws THEN "threw" ELSE ret,
            !.thrownBy = IF throws THEN "sendResponse" ELSE "none"]

\* The runtime invokes the listener with a message of tag `type'; `throws'
\* says whether a sendResponse invoked during the call throws.
Dispatch(type, throws) ==
  LET lookup == HandlerFor(DOMAIN handlers, type)
      l == [ls EXCEPT !.type = type, !.lookup = lookup]
  IN  /\ ls.pc = "idle"
      /\ ls' =
           IF lookup = "none"
             THEN \* line 211-212
                  AfterSyncSend(l, UnknownTypeResponse(type), throws, "false")
           ELSE IF lookup = "inherited"
             THEN IF type = "constructor"
                    THEN \* Object(message, sender) returns the message itself
                         AfterSyncSend([l EXCEPT !.result = "value"],
                                       [type |-> type], throws,
                                       IF KeepChannelOpen(FALSE) THEN "true" ELSE "false")
                    ELSE \* hasOwnProperty called without a receiver: TypeError
                         [l EXCEPT !.pc = "done", !.result = "threw",
                                   !.ret = "threw", !.thrownBy = "handler",
                                   !.fault = ErrorOf("Cannot convert undefined or null to object")]
           ELSE LET h == handlers[type]
                IN  IF h.kind = "value"
                      THEN AfterSyncSend([l EXCEPT !.result = "value"],
                                         h.response, throws,
                                         IF KeepChannelOpen(FALSE) THEN "true" ELSE "false")
                    ELSE IF h.kind = "throw"
                      THEN [l EXCEPT !.pc = "done", !.result = "threw",
                                     !.ret = "threw", !.thrownBy = "handler",
                                     !.fault = h.error]
                    ELSE [l EXCEPT !.pc = "awaiting", !.result = "promise",
                                   !.ret = IF KeepChannelOpen(TRUE) THEN "true" ELSE "false"]
      /\ UNCHANGED <<handlers, coordinatorVars, senderVars, gate, peerVars, storeVars, changeVars>>

\* The handler's promise settles: result.then(sendResponse) runs when it
\* fulfilled, the .catch callback when it rejected.
HandlerSettles(throws) ==
  LET h == handlers[ls.type]
      n == IF throws THEN 1 ELSE 0
  IN  /\ ls.pc = "awaiting"
      /\ ls' =
           IF h.kind = "resolves"
             THEN [ls EXCEPT !.pc = IF throws THEN "thenThrew" ELSE "done",
                             !.sent = Append(ls.sent, h.response),
                             !.sendThrew = ls.sendThrew + n]
             ELSE [ls EXCEPT !.pc = "done",
                             !.fault = h.error,
                             !.sent = Append(ls.sent, RejectedResponse(h.error)),
                             !.sendThrew = ls.sendThrew + n,
                             !.unhandled = throws]
      /\ UNCHANGED <<handlers, coordinatorVars, senderVars, gate, peerVars, storeVars, changeVars>>

\* sendResponse threw inside .then: the promise .then returned rejects with
\* that error, and the .catch callback of line 198 runs on it.
CatchAfterThen(throws) ==
  /\ ls.pc = "thenThrew"
  /\ ls' = [ls EXCEPT !.pc = "done",
                      !.sent = Append(ls.sent, RejectedResponse(ChannelError)),
                      !.sendThrew = ls.sendThrew + (IF throws THEN 1 ELSE 0),
                      !.unhandled = throws]
  /\ UNCHANGED <<handlers, coordinatorVars, senderVars, gate, peerVars, storeVars, changeVars>>

InitListener ==
  /\ handlers \in HandlerMaps
  /\ ls = IdleListener

ListenerNext ==
  \/ \E t \in DispatchedTypes, throws \in BOOLEAN : Dispatch(t, throws)
  \/ \E throws \in BOOLEAN : HandlerSettles(throws)
  \/ \E throws \in BOOLEAN : CatchAfterThen(throws)

\* ------------------------------------ sendMessageToTab and broadcastToAllTabs

\* The tab at position p of the array: it has id p or no id (Tab.id is
\* optional), and its content script is listening or not.
TabsAt(p) ==
  {[id |-> p, page |-> p, listening |-> b] : b \in BOOLEAN}
  \cup {[page |-> p, listening |-> b] : b \in BOOLEAN}

TabArrays ==
  UNION {{a \in [1..n -> UNION {TabsAt(p) : p \in 1..n}] :
            \A p \in 1..n : a[p] \in TabsAt(p)} : n \in 0..MaxTabs}

\* The messages sent to tabs.
TabMessages ==
  {[type |-> "UPDATE_SETTINGS", payload |-> [theme |-> "dark"]],
   [type |-> "PERFORM_ACTION", payload |-> [action |-> "extractData"]],
   [type |-> "PERFORM_ACTION", payload |-> [action |-> "other"]],
   [type |-> "GET_SETTINGS"]}

\* content-script.ts, handleAction.
handleAction(tab, payload) ==
  IF payload.action = "highlightElements"
    THEN [success |-> TRUE, data |-> [highlighted |-> TRUE]]
  ELSE IF payload.action = "extractData"
    THEN [success |-> TRUE, data |-> [url |-> tab.page]]
  ELSE [success |-> FALSE, error |-> "Unknown action: " \o payload.action]

\* content-script.ts, handleMessage: what the content script of `tab' answers.
handleMessage(tab, message) ==
  IF message.type = "UPDATE_SETTINGS" THEN [success |-> TRUE]
  ELSE IF message.type = "PERFORM_ACTION" THEN handleAction(tab, message.payload)
  ELSE [success |-> FALSE, error |-> "Unknown message type: " \o message.type]

\* What chrome.tabs.sendMessage(tab.id, message) does: the content script's
\* answer, or a rejection with `error' when nothing is listening in the tab.
TabOutcome(tab, message, error) ==
  IF tab.listening
    THEN [ok |-> TRUE, response |-> handleMessage(tab, message)]
    ELSE [ok |-> FALSE, error |-> error]

\* What the coordinator may answer a direct sendMessage with.
CoordinatorResponses ==
  {GetSettingsResponse(DEFAULT_USER_SETTINGS),
   [success |-> FALSE, error |-> "Failed to update settings"]}

IdleSend == [pc |-> "idle", fn |-> "", outcome |-> Undefined, result |-> Undefined]

\* A peer calls sendMessage(message) and the runtime call settles as `outcome'.
CallSendMessage(outcome) ==
  /\ snd.pc = "idle"
  /\ snd' = [pc |-> "returned", fn |-> "sendMessage", outcome |-> outcome,
             result |-> sendMessage(outcome)]
  /\ UNCHANGED <<tabs, bc, coordinatorVars, listenerVars, gate, peerVars, storeVars, changeVars>>

\* sendMessageToTab(tabId, message) for the tab at position p of the array, or
\* for a tab id that no tab has (p = 0).
CallSendMessageToTab(p, message, error) ==
  LET outcome == IF p = 0 THEN [ok |-> FALSE, error |-> error]
                 ELSE TabOutcome(tabs[p], message, error)
  IN  /\ snd.pc = "idle"
      /\ p = 0 \/ (p \in DOMAIN tabs /\ HasId(tabs[p]))
      /\ snd' = [pc |-> "returned", fn |-> "sendMessageToTab", outcome |-> outcome,
                 result |-> sendMessageToTab(outcome)]
      /\ UNCHANGED <<tabs, bc, coordinatorVars, listenerVars, gate, peerVars, storeVars, changeVars>>

IdleBroadcast ==
  [pc |-> "idle", message |-> Undefined, enumerated |-> <<>>, pending |-> {},
   results |-> <<>>, outcomes |-> <<>>, rejected |-> FALSE]

\* broadcastToAllTabs(message) is called: chrome.tabs.query({}) is awaited.
Broadcast(message) ==
  /\ bc.pc = "idle"
  /\ bc' = [bc EXCEPT !.pc = "querying", !.message = message]
  /\ UNCHANGED <<tabs, snd, coordinatorVars, listenerVars, gate, peerVars, storeVars, changeVars>>

\* Line 74: if (tab.id), for the tabs of the enumerated array.
Addressed(enumerated) == {p \in DOMAIN enumerated : HasId(enumerated[p])}

\* The enumeration made again while sends are in flight: tabs opened since
\* are sent to as well.
QueryResolvesAgain ==
  /\ bc.pc = "querying" \/ (bc.pc = "sending" /\ bc.enumerated # tabs)
  /\ bc' = [bc EXCEPT !.pc = "sending", !.enumerated = tabs,
                      !.pending = bc.pending \cup
                                  (Addressed(tabs) \ DOMAIN bc.enumerated)]
  /\ UNCHANGED <<tabs, snd, coordinatorVars, listenerVars, gate, peerVars, storeVars, changeVars>>

\* chrome.tabs.query({}) resolves with the tabs open now: tabs.map starts one
\* sendMessageToTab for every tab that has an id.
QueryResolves ==
  /\ bc.pc = "querying"
  /\ bc' = [bc EXCEPT !.pc = "sending", !.enumerated = tabs,
                      !.pending = Addressed(tabs)]
  /\ UNCHANGED <<tabs, snd, coordinatorVars, listenerVars, gate, peerVars, storeVars, changeVars>>

\* chrome.tabs.query({}) rejects: the catch block logs, the empty map is returned.
QueryRejects ==
  /\ bc.pc = "querying"
  /\ bc' = [bc EXCEPT !.pc = "returned"]
  /\ UNCHANGED <<tabs, snd, coordinatorVars, listenerVars, gate, peerVars, storeVars, changeVars>>

\* A map re-created on every set: only the last entry is kept.
MapSetFresh(m, k, v) == [x \in {k} |-> v]

\* m[k] := v on a map kept as a function.
MapSet(m, k, v) ==
  [x \in DOMAIN m \cup {k} |-> IF x = k THEN v ELSE m[x]]

\* The sendMessageToTab for the enumerated tab at position p settles: line 76
\* records its response under the tab's id. A rejection would reject
\* Promise.all and end the await of line 72 in the catch block.
TabSendSettles(p, error) ==
  LET tab == bc.enumerated[p]
      outcome == TabOutcome(tab, bc.message, error)
      s == sendMessageToTab(outcome)
  IN  /\ bc.pc = "sending"
      /\ p \in bc.pending
      /\ bc' = IF s.settled = "fulfilled"
                 THEN [bc EXCEPT !.pending = bc.pending \ {p},
                                 !.results = MapSet(bc.results, tab.id, s.value),
                                 !.outcomes = MapSet(bc.outcomes, tab.id, outcome)]
                 ELSE [bc EXCEPT !.pc = "returned", !.rejected = TRUE,
                                 !.outcomes = MapSet(bc.outcomes, tab.id, outcome)]
      /\ UNCHANGED <<tabs, snd, coordinatorVars, listenerVars, gate, peerVars, storeVars, changeVars>>

\* Every send settled: Promise.all fulfils and the map is returned.
BroadcastReturns ==
  /\ bc.pc = "sending"
  /\ bc.pending = {}
  /\ bc' = [bc EXCEPT !.pc = "returned"]
  /\ UNCHANGED <<tabs, snd, coordinatorVars, listenerVars, gate, peerVars, storeVars, changeVars>>

\* The user opens a tab while a broadcast is in flight: it comes after the
\* tabs open so far.
TabOpens(tab) ==
  /\ bc.pc \in {"querying", "sending"}
  /\ Len(tabs) < MaxTabs
  /\ tab \in TabsAt(Len(tabs) + 1)
  /\ tabs' = Append(tabs, tab)
  /\ UNCHANGED <<snd, bc, coordinatorVars, listenerVars, gate, peerVars, storeVars, changeVars>>

SendOutcomes ==
  {[ok |-> TRUE, response |-> r] : r \in CoordinatorResponses}
  \cup {[ok |-> FALSE, error |-> e] : e \in TransportErrors}

InitSenders ==
  /\ tabs \in TabArrays
  /\ snd = IdleSend
  /\ bc = IdleBroadcast

SendersNext ==
  \/ \E o \in SendOutcomes : CallSendMessage(o)
  \/ \E p \in 0..MaxTabs, m \in TabMessages, e \in TransportErrors :
       CallSendMessageToTab(p, m, e)
  \/ \E m \in TabMessages : Broadcast(m)
  \/ QueryResolves
  \/ QueryRejects
  \/ \E p \in 1..MaxTabs, e \in TransportErrors : TabSendSettles(p, e)
  \/ BroadcastReturns
  \/ \E t \in UNION {TabsAt(p) : p \in 1..MaxTabs} : TabOpens(t)

\* ------------------------------------------- the store helpers' callers

\* STORAGE_KEYS.USER_SETTINGS and STORAGE_KEYS.CACHE, the keys of
\* chrome.storage.sync the model keeps.
USER_SETTINGS == "userSettings"
CACHE == "cache"
SyncKeys == {USER_SETTINGS, CACHE}

\* Keys of chrome.storage.local; setLocalStorageValue takes any string.
LocalKeys == {"userSettings", "largeData"}

\* Partial settings objects a caller may put under the settings key.
Partials ==
  {<<>>, [tier |-> "pro", enabled |-> FALSE],
   [notifications |-> [enabled |-> FALSE]]}

\* Settings records that contain every default field.
Completes ==
  {DEFAULT_USER_SETTINGS,
   [DEFAULT_USER_SETTINGS EXCEPT !.tier = "pro", !.theme = "dark"]}

\* A value of the cache key or of a local key, and a caller's default value.
LargeData == [data |-> "large"]
Fallback == [fallback |-> TRUE]

\* What a rejected chrome.storage call throws.
StorageError == ErrorOf("Storage error")

\* The contexts of the extension; the peers are all but the background.
Peers == {"popup", "options", "content"}

\* chrome.storage.sync as an object.
SyncArea == [userSettings |-> syncStore, cache |-> cache]

\* The keys whose value a write changed: the store reports those.
ChangedKeys(old, new) == {k \in DOMAIN old : old[k] # new[k]}

\* chrome.storage.StorageChange of key k.
StorageChange(old, new, k) == [oldValue |-> old[k], newValue |-> new[k]]

\* The store reports a change to the contexts that listen: one event per
\* write that changed something, carrying every changed key.
Reported(areaName, old, new) ==
  IF onChanged = {} \/ ChangedKeys(old, new) = {}
    THEN pending
    ELSE Append(pending,
           [seq |-> nops + 1, areaName |-> areaName,
            changes |-> [k \in ChangedKeys(old, new) |->
                           StorageChange(old, new, k)]])

\* chrome.storage.sync becomes `new'; wrote: context ctx completed a write of
\* the settings key.
SyncBecomes(new, wrote, ctx) ==
  /\ syncStore' = new[USER_SETTINGS]
  /\ cache' = new[CACHE]
  /\ pending' = Reported("sync", SyncArea, new)
  /\ writers' = IF wrote THEN writers \cup {ctx} ELSE writers

\* A set that stores the value before it rejects.
SyncSetThenReject(key, value, ok, ctx) ==
  SyncBecomes([SyncArea EXCEPT ![key] = value],
              ok /\ key = USER_SETTINGS, ctx)

\* chrome.storage.sync.set({[key]: value}) by ctx, resolving when ok.
SyncSet(key, value, ok, ctx) ==
  SyncBecomes(IF ok THEN [SyncArea EXCEPT ![key] = value] ELSE SyncArea,
              ok /\ key = USER_SETTINGS, ctx)

IdleOp ==
  [name |-> "none", ctx |-> "none", key |-> "none", arg |-> Undefined,
   readOk |-> TRUE, writeOk |-> TRUE, before |-> Undefined,
   result |-> Undefined]

\* A caller's store operation completed: it becomes the last one.
Ran(o) ==
  /\ nops < limit
  /\ op' = o
  /\ prev' = [name |-> op.name, arg |-> op.arg, result |-> op.result]
  /\ nops' = nops + 1
  /\ log' = IF log.on THEN [log EXCEPT !.ops = Append(@, o)] ELSE log

\* removeStorageValue without its try/catch.
removeStorageValueNoCatch(removeOk) ==
  IF removeOk THEN Fulfilled(TRUE) ELSE Rejected(StorageError)

\* removeStorageValue(key): removeOk when chrome.storage.sync.remove resolved.
removeStorageValue(removeOk) ==
  IF removeOk THEN Fulfilled(TRUE) ELSE Fulfilled(FALSE)

\* clearStorage(): clearOk when chrome.storage.sync.clear resolved.
clearStorage(clearOk) ==
  IF clearOk THEN Fulfilled(TRUE) ELSE Fulfilled(FALSE)

\* getLocalStorageValue(key, defaultValue): got as for getStorageValue.
getLocalStorageValue(got, defaultValue) ==
  IF got.ok
    THEN IF got.value = Undefined \/ got.value = Null
           THEN defaultValue ELSE got.value
    ELSE defaultValue

\* setLocalStorageValue(key, value): TRUE when chrome.storage.local.set resolved.
setLocalStorageValue(setOk) == setOk

\* A read that takes the key for a property name (result.key) and finds nothing.
GotNothing(key, ok) ==
  IF ok THEN [ok |-> TRUE, value |-> Undefined] ELSE [ok |-> FALSE]

\* What chrome.storage.sync.get(key) did.
Got(key, ok) ==
  IF ok THEN [ok |-> TRUE, value |-> SyncArea[key]] ELSE [ok |-> FALSE]

LocalGot(key, ok) ==
  IF ok THEN [ok |-> TRUE, value |-> localStore[key]] ELSE [ok |-> FALSE]

\* A caller awaits getStorageValue(key, Fallback).
CallGetStorageValue(key, ok) ==
  /\ Ran([IdleOp EXCEPT !.name = "getStorageValue", !.ctx = "caller",
            !.key = key, !.arg = Fallback, !.readOk = ok,
            !.before = SyncArea[key],
            !.result = Fulfilled(getStorageValue(Got(key, ok), Fallback))])
  /\ UNCHANGED <<syncStore, cache, localStore, writers, pending>>
  /\ UNCHANGED <<version, reqs, limit, listenerVars, senderVars, gate, peerVars, onChanged, subs>>

\* A caller awaits setStorageValue(key, value).
CallSetStorageValue(key, value, ok) ==
  /\ Ran([IdleOp EXCEPT !.name = "setStorageValue", !.ctx = "caller",
            !.key = key, !.arg = value, !.writeOk = ok,
            !.before = SyncArea[key],
            !.result = Fulfilled(setStorageValue(ok))])
  /\ SyncSet(key, value, ok, "caller")
  /\ UNCHANGED <<localStore>>
  /\ UNCHANGED <<version, reqs, limit, listenerVars, senderVars, gate, peerVars, onChanged, subs>>

\* A caller awaits removeStorageValue(key).
CallRemoveStorageValue(key, ok) ==
  /\ Ran([IdleOp EXCEPT !.name = "removeStorageValue", !.ctx = "caller",
            !.key = key, !.writeOk = ok, !.before = SyncArea[key],
            !.result = removeStorageValue(ok)])
  /\ SyncBecomes(IF ok THEN [SyncArea EXCEPT ![key] = Undefined] ELSE SyncArea,
                 ok /\ key = USER_SETTINGS, "caller")
  /\ UNCHANGED <<localStore>>
  /\ UNCHANGED <<version, reqs, limit, listenerVars, senderVars, gate, peerVars, onChanged, subs>>

\* A caller awaits clearStorage().
CallClearStorage(ok) ==
  /\ Ran([IdleOp EXCEPT !.name = "clearStorage", !.ctx = "caller",
            !.writeOk = ok, !.before = syncStore,
            !.result = clearStorage(ok)])
  /\ SyncBecomes(IF ok THEN [k \in SyncKeys |-> Undefined] ELSE SyncArea,
                 ok, "caller")
  /\ UNCHANGED <<localStore>>
  /\ UNCHANGED <<version, reqs, limit, listenerVars, senderVars, gate, peerVars, onChanged, subs>>

\* The background awaits getUserSettings() (GET_SETTINGS, CHECK_FEATURE_ACCESS).
CallGetUserSettings(ok) ==
  /\ Ran([IdleOp EXCEPT !.name = "getUserSettings", !.ctx = "background",
            !.key = USER_SETTINGS, !.readOk = ok, !.before = syncStore,
            !.result = Fulfilled(getUserSettings(Got(USER_SETTINGS, ok)))])
  /\ UNCHANGED <<syncStore, cache, localStore, writers, pending>>
  /\ UNCHANGED <<version, reqs, limit, listenerVars, senderVars, gate, peerVars, onChanged, subs>>

\* A caller awaits saveUserSettings(settings).
CallSaveUserSettings(settings, ok) ==
  /\ Ran([IdleOp EXCEPT !.name = "saveUserSettings", !.ctx = "caller",
            !.key = USER_SETTINGS, !.arg = settings, !.writeOk = ok,
            !.before = syncStore,
            !.result = Fulfilled(saveUserSettings(ok))])
  /\ SyncSet(USER_SETTINGS, settings, ok, "caller")
  /\ UNCHANGED <<localStore>>
  /\ UNCHANGED <<version, reqs, limit, listenerVars, senderVars, gate, peerVars, onChanged, subs>>

\* The background awaits updateUserSettings(updates) (UPDATE_SETTINGS), with
\* nothing else running between its read and its write.
CallUpdateUserSettings(updates, getOk, setOk) ==
  LET currentSettings == getUserSettings(Got(USER_SETTINGS, getOk))
      newSettings == NewSettings(currentSettings, updates)
      success == saveUserSettings(setOk)
  IN  /\ Ran([IdleOp EXCEPT !.name = "updateUserSettings",
                !.ctx = "background", !.key = USER_SETTINGS,
                !.arg = updates, !.readOk = getOk, !.writeOk = setOk,
                !.before = syncStore,
                !.result = Fulfilled(UpdateResult(success, newSettings))])
      /\ SyncSet(USER_SETTINGS, newSettings, setOk, "background")
      /\ UNCHANGED <<localStore>>
      /\ UNCHANGED <<version, reqs, limit, listenerVars, senderVars, gate, peerVars, onChanged, subs>>

\* resetUserSettings, line 347, with the prior record laid over the defaults.
ResetSettingsKeepPrior == ShallowMerge(DEFAULT_USER_SETTINGS, syncStore)

\* resetUserSettings, line 347: the record handed to saveUserSettings.
ResetSettings == DEFAULT_USER_SETTINGS

resetUserSettings(setOk) == saveUserSettings(setOk)

\* Options.handleReset once the user confirmed: the options page awaits
\* resetUserSettings() itself.
handleReset(ok) ==
  /\ Ran([IdleOp EXCEPT !.name = "resetUserSettings", !.ctx = "options",
            !.key = USER_SETTINGS, !.arg = ResetSettings, !.writeOk = ok,
            !.before = syncStore,
            !.result = Fulfilled(resetUserSettings(ok))])
  /\ SyncSet(USER_SETTINGS, ResetSettings, ok, "options")
  /\ UNCHANGED <<localStore>>
  /\ UNCHANGED <<version, reqs, limit, listenerVars, senderVars, gate, peerVars, onChanged, subs>>

\* A caller awaits getLocalStorageValue(key, Fallback).
CallGetLocalStorageValue(key, ok) ==
  /\ Ran([IdleOp EXCEPT !.name = "getLocalStorageValue", !.ctx = "caller",
            !.key = key, !.arg = Fallback, !.readOk = ok,
            !.before = localStore[key],
            !.result = Fulfilled(getLocalStorageValue(LocalGot(key, ok),
                                                      Fallback))])
  /\ UNCHANGED <<syncStore, cache, localStore, writers, pending>>
  /\ UNCHANGED <<version, reqs, limit, listenerVars, senderVars, gate, peerVars, onChanged, subs>>

\* A caller awaits setLocalStorageValue(key, value).
CallSetLocalStorageValue(key, value, ok) ==
  LET new == IF ok THEN [localStore EXCEPT ![key] = value] ELSE localStore
  IN  /\ Ran([IdleOp EXCEPT !.name = "setLocalStorageValue", !.ctx = "caller",
                !.key = key, !.arg = value, !.writeOk = ok,
                !.before = localStore[key],
                !.result = Fulfilled(setLocalStorageValue(ok))])
      /\ localStore' = new
      /\ pending' = Reported("local", localStore, new)
      /\ UNCHANGED <<syncStore, cache, writers>>
      /\ UNCHANGED <<version, reqs, limit, listenerVars, senderVars, gate, peerVars, onChanged, subs>>

\* Values a caller puts under a key of chrome.storage.sync.
ValuesFor(key) ==
  IF key = USER_SETTINGS THEN Partials \cup Completes ELSE {LargeData}

StoreNext ==
  \/ \E k \in SyncKeys, ok \in BOOLEAN : CallGetStorageValue(k, ok)
  \/ \E k \in SyncKeys, ok \in BOOLEAN :
       \E v \in ValuesFor(k) : CallSetStorageValue(k, v, ok)
  \/ \E k \in SyncKeys, ok \in BOOLEAN : CallRemoveStorageValue(k, ok)
  \/ \E ok \in BOOLEAN : CallClearStorage(ok)
  \/ \E ok \in BOOLEAN : CallGetUserSettings(ok)
  \/ \E x \in Completes, ok \in BOOLEAN : CallSaveUserSettings(x, ok)
  \/ \E u \in Updates, getOk \in BOOLEAN, setOk \in BOOLEAN :
       CallUpdateUserSettings(u, getOk, setOk)
  \/ \E ok \in BOOLEAN : handleReset(ok)
  \/ \E k \in LocalKeys, ok \in BOOLEAN : CallGetLocalStorageValue(k, ok)
  \/ \E k \in LocalKeys, ok \in BOOLEAN :
       CallSetLocalStorageValue(k, LargeData, ok)

InitStore ==
  /\ cache = Undefined
  /\ localStore = [k \in LocalKeys |-> Undefined]
  /\ op = IdleOp
  /\ prev = [name |-> "none", arg |-> Undefined, result |-> Undefined]
  /\ nops = 0
  /\ writers = {}
  /\ log = [on |-> FALSE, ops |-> <<>>]

\* ------------------------------------------------ settings-change listeners

\* The calls of onUserSettingsChange; call s creates listener s.
Subscribers == 1..MaxSubscribers

\* The listener's guard that forgets the area name.
ListenerFiresAnyArea(changes, areaName) == USER_SETTINGS \in DOMAIN changes

\* onUserSettingsChange, line 383: the listener's guard.
ListenerFires(changes, areaName) ==
  areaName = "sync" /\ USER_SETTINGS \in DOMAIN changes

\* The callback's arguments with the previous value merged like the new one.
CallbackArgsBothMerged(change) ==
  [newSettings |-> ShallowMerge(DEFAULT_USER_SETTINGS, change.newValue),
   oldSettings |-> ShallowMerge(DEFAULT_USER_SETTINGS, change.oldValue)]

\* onUserSettingsChange, lines 384-388: what the callback is given.
CallbackArgs(change) ==
  [newSettings |-> ShallowMerge(DEFAULT_USER_SETTINGS, change.newValue),
   oldSettings |-> change.oldValue]

\* addStorageChangeListener(listener)
addStorageChangeListener(registered, listener) == registered \cup {listener}

\* A removal that empties the event's listener list.
removeStorageChangeListenerAll(registered, listener) == {}

\* removeStorageChangeListener(listener)
removeStorageChangeListener(registered, listener) == registered \ {listener}

\* unsubscribed: whether the handle was invoked: "no", "once" or "again";
\* heard: the area and keys of the events the listener was given; last: the
\* callback's latest invocation.
NotSubscribed ==
  [subscribed |-> FALSE, unsubscribed |-> "no", heard |-> {},
   last |-> Undefined]

\* A popup or options page mounts: onUserSettingsChange(callback), call s.
Subscribe(s) ==
  /\ ~subs[s].subscribed
  /\ onChanged' = addStorageChangeListener(onChanged, s)
  /\ subs' = [subs EXCEPT ![s].subscribed = TRUE]
  /\ UNCHANGED <<pending, coordinatorVars, listenerVars, senderVars, gate, peerVars, storeVars>>

\* The handle onUserSettingsChange returned to call s is invoked.
Unsubscribe(s) ==
  /\ subs[s].subscribed
  /\ onChanged' = removeStorageChangeListener(onChanged, s)
  /\ subs' = [subs EXCEPT ![s].unsubscribed =
                             IF @ = "no" THEN "once" ELSE "again"]
  /\ UNCHANGED <<pending, coordinatorVars, listenerVars, senderVars, gate, peerVars, storeVars>>

\* A listener that notes the event and never calls the callback.
ListenerRanSilent(s, e) ==
  [subs[s] EXCEPT !.heard = @ \cup {<<e.areaName, DOMAIN e.changes>>}]

\* Listener s given the event e: the callback runs, or nothing happens.
ListenerRan(s, e) ==
  IF ListenerFires(e.changes, e.areaName)
    THEN [subs[s] EXCEPT
            !.heard = @ \cup {<<e.areaName, DOMAIN e.changes>>},
            !.last = [seq |-> e.seq, areaName |-> e.areaName,
                      keys |-> DOMAIN e.changes,
                      change |-> e.changes[USER_SETTINGS],
                      args |-> CallbackArgs(e.changes[USER_SETTINGS])]]
    ELSE [subs[s] EXCEPT
            !.heard = @ \cup {<<e.areaName, DOMAIN e.changes>>}]

\* chrome.storage.onChanged dispatches the oldest reported event to the
\* listeners registered now.
DispatchChange ==
  /\ pending # <<>>
  /\ subs' = [s \in Subscribers |->
                IF s \in onChanged THEN ListenerRan(s, Head(pending))
                                   ELSE subs[s]]
  /\ pending' = Tail(pending)
  /\ UNCHANGED <<onChanged, coordinatorVars, listenerVars, senderVars, gate, peerVars, storeVars>>

\* Some context's chrome.storage.sync.set({[key]: value}) completed.
AreaSet(key, value) ==
  /\ nops < limit
  /\ nops' = nops + 1
  /\ SyncSet(key, value, TRUE, "caller")
  /\ UNCHANGED <<localStore, op, prev, log>>
  /\ UNCHANGED <<version, reqs, limit, listenerVars, senderVars, gate, peerVars, onChanged, subs>>

\* Some context's chrome.storage.sync.remove(key) completed.
AreaRemove(key) ==
  /\ nops < limit
  /\ nops' = nops + 1
  /\ SyncSet(key, Undefined, TRUE, "caller")
  /\ UNCHANGED <<localStore, op, prev, log>>
  /\ UNCHANGED <<version, reqs, limit, listenerVars, senderVars, gate, peerVars, onChanged, subs>>

\* Some context's chrome.storage.sync.clear() completed.
AreaClear ==
  /\ nops < limit
  /\ nops' = nops + 1
  /\ SyncBecomes([k \in SyncKeys |-> Undefined], TRUE, "caller")
  /\ UNCHANGED <<localStore, op, prev, log>>
  /\ UNCHANGED <<version, reqs, limit, listenerVars, senderVars, gate, peerVars, onChanged, subs>>

\* Some context's chrome.storage.local.set({[key]: value}) completed.
LocalAreaSet(key, value) ==
  /\ nops < limit
  /\ nops' = nops + 1
  /\ localStore' = [localStore EXCEPT ![key] = value]
  /\ pending' = Reported("local", localStore, localStore')
  /\ UNCHANGED <<syncStore, cache, writers, op, prev, log>>
  /\ UNCHANGED <<version, reqs, limit, listenerVars, senderVars, gate, peerVars, onChanged, subs>>

\* Records the contexts put under the settings key while others listen.
ChangedSettings ==
  {[notifications |-> [enabled |-> FALSE]],
   [DEFAULT_USER_SETTINGS EXCEPT !.tier = "pro", !.theme = "dark"]}

\* The subscribers and the writes they hear of.
ChangesNext ==
  \/ \E s \in Subscribers : Subscribe(s)
  \/ \E s \in Subscribers : Unsubscribe(s)
  \/ DispatchChange
  \/ \E v \in ChangedSettings : AreaSet(USER_SETTINGS, v)
  \/ AreaSet(CACHE, LargeData)
  \/ AreaRemove(USER_SETTINGS)
  \/ AreaClear
  \/ LocalAreaSet(USER_SETTINGS, LargeData)

InitChanges ==
  /\ onChanged = {}
  /\ subs = [s \in Subscribers |-> NotSubscribed]
  /\ pending = <<>>

\* ------------------------------------------------------- the feature gate

Tiers == {"free", "pro"}

\* The popup before it rendered: useState(DEFAULT_USER_SETTINGS), no feature
\* gated yet.
ClosedPopup == [tier |-> DEFAULT_USER_SETTINGS.tier, checked |-> <<>>]

\* setSettings(settings): the popup holds settings of this tier from now on.
setSettings(tier) ==
  /\ gate.tier # tier
  /\ gate' = [gate EXCEPT !.tier = tier]
  /\ UNCHANGED <<coordinatorVars, listenerVars, senderVars, storeVars, changeVars, peerVars>>

\* canAccessFeature(feature): the popup asks the gate with the tier it holds.
canAccessFeature(feature) ==
  /\ gate' = [gate EXCEPT !.checked =
               MapSet(@, feature,
                      [tier |-> gate.tier,
                       hasAccess |-> hasFeatureAccess(gate.tier, feature)])]
  /\ UNCHANGED <<coordinatorVars, listenerVars, senderVars, storeVars, changeVars, peerVars>>

GateNext ==
  \/ \E t \in Tiers : setSettings(t)
  \/ \E f \in FeatureKeys : canAccessFeature(f)

NoPopup == gate = ClosedPopup

\* ---------------------------------------------- the popup and options page

\* The pages that hold a settings copy: Popup and Options.
UIPeers == {"popup", "options"}

\* No page is open.
ClosedPages == [settings |-> <<>>, heard |-> <<>>, replies |-> {}]

\* Both pages mounted, their loadData/loadSettings answered from the record
\* under the settings key, and their onUserSettingsChange callbacks registered.
\* settings: useState's value; heard: how many of the store's events the
\* page's listener was given; replies: answers on their way to a page.
MountedPages ==
  [settings |-> [p \in UIPeers |-> getUserSettings(Got(USER_SETTINGS, TRUE))],
   heard |-> [p \in UIPeers |-> 0],
   replies |-> {}]

\* The updates the options page sends: handleThemeChange, handleTierChange
\* and handleNotificationToggle, the last one built from the page's copy.
OptionsUpdates ==
  {[theme |-> "dark"], [tier |-> "pro"]} \cup
  {[notifications |-> [ui.settings["options"].notifications EXCEPT ![k] = ~@]] :
     k \in DOMAIN ui.settings["options"].notifications}

\* Page p awaits requestUpdateSettings(updates): the coordinator's
\* UPDATE_SETTINGS handler runs updateUserSettings and its answer is on its
\* way back to the page.
requestUpdateSettings(p, updates, getOk, setOk) ==
  LET currentSettings == getUserSettings(Got(USER_SETTINGS, getOk))
      newSettings == NewSettings(currentSettings, updates)
      updated == UpdateResult(saveUserSettings(setOk), newSettings)
  IN  /\ Ran([IdleOp EXCEPT !.name = "updateUserSettings",
                !.ctx = "background", !.key = USER_SETTINGS,
                !.arg = updates, !.readOk = getOk, !.writeOk = setOk,
                !.before = syncStore, !.result = Fulfilled(updated)])
      /\ SyncSet(USER_SETTINGS, newSettings, setOk, "background")
      /\ ui' = [ui EXCEPT !.replies = @ \cup
                  {[to |-> p, kind |-> "update", seq |-> nops + 1,
                    response |-> UpdateSettingsResponse(updated)]}]
      /\ UNCHANGED <<localStore, cs>>
      /\ UNCHANGED <<version, reqs, limit, listenerVars, senderVars, gate, onChanged, subs>>

\* Popup.toggleEnabled
toggleEnabled(getOk, setOk) ==
  requestUpdateSettings("popup", [enabled |-> ~ui.settings["popup"].enabled],
                        getOk, setOk)

\* Options.saveSettings(updates)
saveSettings(updates, getOk, setOk) ==
  requestUpdateSettings("options", updates, getOk, setOk)

\* Options.handleReset once the user confirmed: the page's own
\* resetUserSettings() completed and its continuation is still to run.
OptionsReset(ok) ==
  /\ Ran([IdleOp EXCEPT !.name = "resetUserSettings", !.ctx = "options",
            !.key = USER_SETTINGS, !.arg = ResetSettings, !.writeOk = ok,
            !.before = syncStore,
            !.result = Fulfilled(resetUserSettings(ok))])
  /\ SyncSet(USER_SETTINGS, ResetSettings, ok, "options")
  /\ ui' = [ui EXCEPT !.replies = @ \cup
              {[to |-> "options", kind |-> "reset", seq |-> nops + 1,
                response |-> [success |-> resetUserSettings(ok),
                              data |-> ResetSettings]]}]
  /\ UNCHANGED <<localStore, cs>>
  /\ UNCHANGED <<version, reqs, limit, listenerVars, senderVars, gate, onChanged, subs>>

\* What a page holds after the await of reply r: setSettings(response.data)
\* when response.success && response.data, setSettings(DEFAULT_USER_SETTINGS)
\* when a reset succeeded, the same copy otherwise.
AfterReply(settings, r) ==
  IF r.response.success /\ "data" \in DOMAIN r.response
    THEN r.response.data ELSE settings

\* An answer reaches its page and the awaiting code continues.
ReplyArrives(r) ==
  /\ r \in ui.replies
  /\ ui' = [ui EXCEPT !.replies = @ \ {r},
                      !.settings[r.to] = AfterReply(@, r)]
  /\ UNCHANGED <<cs, gate, coordinatorVars, listenerVars, senderVars, storeVars, changeVars>>

\* What a page holds after its listener was given event e: the callback
\* setSettings(newSettings) ran, or the guard of line 383 kept it from running.
AfterEvent(settings, e) ==
  IF ListenerFires(e.changes, e.areaName)
    THEN CallbackArgs(e.changes[USER_SETTINGS]).newSettings
    ELSE settings

\* chrome.storage.onChanged gives page p the next event it has not heard.
PageHearsChange(p) ==
  /\ ui.heard[p] < Len(pending)
  /\ ui' = [ui EXCEPT !.heard[p] = @ + 1,
                      !.settings[p] = AfterEvent(@, pending[ui.heard[p] + 1])]
  /\ UNCHANGED <<cs, gate, coordinatorVars, listenerVars, senderVars, storeVars, changeVars>>

PagesNext ==
  \/ \E getOk \in BOOLEAN, setOk \in BOOLEAN : toggleEnabled(getOk, setOk)
  \/ \E u \in OptionsUpdates, getOk \in BOOLEAN, setOk \in BOOLEAN :
       saveSettings(u, getOk, setOk)
  \/ \E ok \in BOOLEAN : OptionsReset(ok)
  \/ \E r \in ui.replies : ReplyArrives(r)
  \/ \E p \in UIPeers : PageHearsChange(p)

\* ------------------------------------------------------ the content script

\* The module's state when the script is injected: isInitialized = false,
\* currentSettings = null; calls: the initialize() calls made so far; ready:
\* the ready notifications sent; setups: the runs of setupContentScript.
IdleContentScript ==
  [isInitialized |-> FALSE, currentSettings |-> Null, calls |-> <<>>,
   ready |-> 0, setups |-> 0]

\* What the settings key may hold when a page is loaded.
ContentStored ==
  InitialStored \cup {[DEFAULT_USER_SETTINGS EXCEPT !.enabled = FALSE]}

\* How chrome.runtime.sendMessage settles for requestSettings(): with the
\* GET_SETTINGS handler's answer, or rejected by the transport.
SettingsOutcomes ==
  {[ok |-> TRUE,
    response |-> GetSettingsResponse(getUserSettings(Got(USER_SETTINGS, ok)))] :
     ok \in BOOLEAN}
  \cup {[ok |-> FALSE, error |-> e] : e \in TransportErrors}

\* The test of lines 38 and 42 with the enabled flag left out.
RunsSetupWhenAnswered(settingsResponse) ==
  settingsResponse.success /\ "data" \in DOMAIN settingsResponse

\* initialize, lines 38 and 42: whether setupContentScript runs.
RunsSetup(settingsResponse) ==
  /\ settingsResponse.success /\ "data" \in DOMAIN settingsResponse
  /\ settingsResponse.data.enabled

\* initialize() is called: line 30 returns at once, or the ready
\* notification is sent and the call awaits its answer.
initialize ==
  /\ Len(cs.calls) < limit
  /\ cs' = IF cs.isInitialized
             THEN [cs EXCEPT !.calls = Append(@, [pc |-> "returned",
                                                   skipped |-> TRUE])]
             ELSE [cs EXCEPT !.calls = Append(@, [pc |-> "awaitReady",
                                                   skipped |-> FALSE]),
                             !.ready = @ + 1]
  /\ UNCHANGED <<ui, gate, coordinatorVars, listenerVars, senderVars, storeVars, changeVars>>

\* notifyContentScriptReady settled for call c (sendMessage never rejects and
\* its response is not looked at): requestSettings() is sent, line 37.
ReadyAnswered(c) ==
  /\ cs.calls[c].pc = "awaitReady"
  /\ cs' = [cs EXCEPT !.calls[c].pc = "awaitSettings"]
  /\ UNCHANGED <<ui, gate, coordinatorVars, listenerVars, senderVars, storeVars, changeVars>>

\* requestSettings() settled for call c: lines 38-47 run.
SettingsAnswered(c, outcome) ==
  LET settingsResponse == sendMessage(outcome).value
  IN  /\ cs.calls[c].pc = "awaitSettings"
      /\ cs' = [cs EXCEPT
                  !.calls[c] = [pc |-> "returned", skipped |-> FALSE,
                                response |-> settingsResponse],
                  !.currentSettings =
                     IF settingsResponse.success
                          /\ "data" \in DOMAIN settingsResponse
                       THEN settingsResponse.data ELSE @,
                  !.setups = IF RunsSetup(settingsResponse) THEN @ + 1 ELSE @,
                  !.isInitialized = TRUE]
      /\ UNCHANGED <<ui, gate, coordinatorVars, listenerVars, senderVars, storeVars, changeVars>>

ContentNext ==
  \/ initialize
  \/ \E c \in DOMAIN cs.calls : ReadyAnswered(c)
  \/ \E c \in DOMAIN cs.calls, o \in SettingsOutcomes : SettingsAnswered(c, o)

NoPeers == ui = ClosedPages /\ cs = IdleContentScript

\* --------------------------------------------------------- specifications

InitCoordinator(n) ==
  /\ syncStore \in InitialStored
  /\ version = 0
  /\ reqs = <<>>
  /\ limit = n

NoCoordinator ==
  /\ syncStore = Undefined
  /\ version = 0
  /\ reqs = <<>>
  /\ limit = 0

NoListener ==
  /\ handlers = <<>>
  /\ ls = IdleListener

NoSenders ==
  /\ tabs = <<>>
  /\ snd = IdleSend
  /\ bc = IdleBroadcast

NoStore == InitStore /\ InitChanges

Init == InitCoordinator(MaxRequests) /\ NoListener /\ NoSenders /\ NoStore /\ NoPopup /\ NoPeers

Next ==
  \/ \E q \in Requests : Send(q[1], q[2])
  \/ \E i \in Ids, e \in TransportErrors : TransportFail(i, e)
  \/ \E i \in Ids : Deliver(i)
  \/ \E i \in Ids, ok \in BOOLEAN : StorageGet(i, ok)
  \/ \E i \in Ids, ok \in BOOLEAN : StorageSet(i, ok)
  \/ \E i \in Ids, o \in TabsQueryOutcomes : TabsQuery(i, o)
  \/ \E i \in Ids : Respond(i)

\* The coordinator serving the peers' requests.
Spec == Init /\ [][Next]_vars

\* One listener built by createMessageListener, given one message.
ListenerInit == NoCoordinator /\ InitListener /\ NoSenders /\ NoStore /\ NoPopup /\ NoPeers

SpecListener == ListenerInit /\ [][ListenerNext]_vars

\* The senders: sendMessage, sendMessageToTab, broadcastToAllTabs.
SendersInit == NoCoordinator /\ NoListener /\ InitSenders /\ NoStore /\ NoPopup /\ NoPeers

SpecSenders == SendersInit /\ [][SendersNext]_vars

\* What request i can do once sent: the transport, the store and the tab query
\* each settle what was asked of them.
StepOf(i) ==
  /\ i \in Ids
  /\ \/ \E e \in TransportErrors : TransportFail(i, e)
     \/ Deliver(i)
     \/ \E ok \in BOOLEAN : StorageGet(i, ok)
     \/ \E ok \in BOOLEAN : StorageSet(i, ok)
     \/ \E o \in TabsQueryOutcomes : TabsQuery(i, o)
     \/ Respond(i)

FairInit == InitCoordinator(MaxLiveRequests) /\ NoListener /\ NoSenders /\ NoStore /\ NoPopup /\ NoPeers

\* The coordinator under fair scheduling: no runtime call stays unsettled for
\* ever.
FairSpec ==
  /\ FairInit
  /\ [][Next]_vars
  /\ \A i \in 1..MaxLiveRequests : WF_vars(StepOf(i))

\* The settings key when a run starts: nothing, or a record an earlier run
\* persisted.
InitSettingsKey(n) ==
  /\ syncStore \in InitialStored
  /\ version = 0
  /\ reqs = <<>>
  /\ limit = n

StoreInit ==
  InitSettingsKey(MaxStoreOps) /\ NoListener /\ NoSenders /\ NoStore
  /\ NoPopup /\ NoPeers

ChangesInit ==
  InitSettingsKey(MaxChanges) /\ NoListener /\ NoSenders /\ NoStore
  /\ NoPopup /\ NoPeers

\* The two pages, open and loaded, against the store and the coordinator.
PagesInit ==
  /\ InitSettingsKey(MaxPageOps) /\ NoListener /\ NoSenders /\ InitStore
  /\ onChanged = UIPeers
  /\ subs = [s \in Subscribers |-> NotSubscribed]
  /\ pending = <<>>
  /\ NoPopup
  /\ ui = MountedPages
  /\ cs = IdleContentScript

SpecPages == PagesInit /\ [][PagesNext]_vars

\* One content-script context and the initialize() calls made in it.
ContentInit ==
  /\ syncStore \in ContentStored
  /\ version = 0
  /\ reqs = <<>>
  /\ limit = MaxInitCalls
  /\ NoListener /\ NoSenders /\ NoStore /\ NoPopup
  /\ ui = ClosedPages
  /\ cs = IdleContentScript

SpecContent == ContentInit /\ [][ContentNext]_vars

\* Records an earlier version of the extension may have left under the
\* settings key: nothing, or an object without some of today's fields.
LegacyStored == {Undefined} \cup Partials

\* The update requests of SpecWrites.
WriteRequests ==
  {q \in Requests : q[1].type = "UPDATE_SETTINGS"
                      /\ q[1].payload \in {[tier |-> "pro"], [theme |-> "dark"]}}

WritesNext ==
  \/ \E q \in WriteRequests : Send(q[1], q[2])
  \/ \E i \in Ids : Deliver(i)
  \/ \E i \in Ids, ok \in BOOLEAN : StorageGet(i, ok)
  \/ \E i \in Ids, ok \in BOOLEAN : StorageSet(i, ok)
  \/ \E i \in Ids : Respond(i)
  \/ \E ok \in BOOLEAN : handleReset(ok)

WritesInit ==
  /\ syncStore \in LegacyStored
  /\ version = 0
  /\ reqs = <<>>
  /\ limit = MaxWrites
  /\ NoListener /\ NoSenders /\ NoStore /\ NoPopup /\ NoPeers

\* Updates the coordinator handles concurrently, and resets the options page
\* makes in between.
SpecWrites == WritesInit /\ [][WritesNext]_vars

\* The store helpers, run one after another by their callers.
SpecStore == StoreInit /\ [][StoreNext]_vars

\* The subscribers of settings changes and the writes they hear of.
SpecChanges == ChangesInit /\ [][ChangesNext]_vars

\* The requests of SpecHandlers: every feature key, and a sender or an active
\* tab whose tab has no id (Tab.id is optional).
HandledMessages ==
  Messages \cup {[type |-> "CHECK_FEATURE_ACCESS", payload |-> [feature |-> f]] :
                   f \in FeatureKeys}

HandledSenders ==
  Senders \cup {[tab |-> [url |-> "https://page", title |-> "Page"]]}

HandledRequests ==
  {<<m, s>> \in HandledMessages \X HandledSenders :
     m.type \in {"GET_TAB_INFO", "CONTENT_SCRIPT_READY"} \/ s.tab = Undefined}

HandledQueryOutcomes ==
  TabsQueryOutcomes
  \cup {[ok |-> TRUE, tab |-> [url |-> "", title |-> "Active"]]}

HandlersNext ==
  \/ \E q \in HandledRequests : Send(q[1], q[2])
  \/ \E i \in Ids, e \in TransportErrors : TransportFail(i, e)
  \/ \E i \in Ids : Deliver(i)
  \/ \E i \in Ids, ok \in BOOLEAN : StorageGet(i, ok)
  \/ \E i \in Ids, ok \in BOOLEAN : StorageSet(i, ok)
  \/ \E i \in Ids, o \in HandledQueryOutcomes : TabsQuery(i, o)
  \/ \E i \in Ids : Respond(i)

HandlersInit ==
  InitCoordinator(MaxHandled) /\ NoListener /\ NoSenders /\ NoStore /\ NoPopup /\ NoPeers

\* The coordinator's handlers, each with every input it distinguishes.
SpecHandlers == HandlersInit /\ [][HandlersNext]_vars

\* The requests of SpecServed: one of every tag, the update to the pro tier
\* and the check of a pro feature.
ServedRequests ==
  {q \in Requests :
     /\ q[1].type = "UPDATE_SETTINGS" => q[1].payload = [tier |-> "pro"]
     /\ q[1].type = "CHECK_FEATURE_ACCESS" => q[1].payload.feature = "export_data"}

ServedNext ==
  \/ \E q \in ServedRequests : Send(q[1], q[2])
  \/ \E i \in Ids, e \in TransportErrors : TransportFail(i, e)
  \/ \E i \in Ids : Deliver(i)
  \/ \E i \in Ids, ok \in BOOLEAN : StorageGet(i, ok)
  \/ \E i \in Ids, ok \in BOOLEAN : StorageSet(i, ok)
  \/ \E i \in Ids, o \in TabsQueryOutcomes : TabsQuery(i, o)
  \/ \E i \in Ids : Respond(i)

ServedInit ==
  InitCoordinator(MaxServed) /\ NoListener /\ NoSenders /\ NoStore /\ NoPopup /\ NoPeers

\* The coordinator serving requests of every tag one among the others.
SpecServed == ServedInit /\ [][ServedNext]_vars

\* One part of the core at work in a run: the coordinator serving requests
\* (limit > 0), a listener given a message (no tab open), or the senders
\* (some tab open).
CoreInit ==
  \/ HandlersInit
  \/ ListenerInit
  \/ SendersInit /\ tabs # <<>>

CoreNext ==
  \/ limit > 0 /\ HandlersNext
  \/ limit = 0 /\ tabs = <<>> /\ ListenerNext
  \/ tabs # <<>> /\ SendersNext

SpecCore == CoreInit /\ [][CoreNext]_vars

\* The settings helpers run one after another from an empty store, every
\* operation kept in the log.
LifecycleNext ==
  \/ \E ok \in BOOLEAN : CallGetUserSettings(ok)
  \/ \E getOk \in BOOLEAN, setOk \in BOOLEAN :
       CallUpdateUserSettings([tier |-> "pro"], getOk, setOk)
  \/ \E ok \in BOOLEAN : handleReset(ok)

LifecycleInit ==
  /\ syncStore = Undefined
  /\ version = 0
  /\ reqs = <<>>
  /\ limit = MaxLifecycleOps
  /\ NoListener /\ NoSenders /\ InitChanges /\ NoPopup /\ NoPeers
  /\ cache = Undefined
  /\ localStore = [k \in LocalKeys |-> Undefined]
  /\ op = IdleOp
  /\ prev = [name |-> "none", arg |-> Undefined, result |-> Undefined]
  /\ nops = 0
  /\ writers = {}
  /\ log = [on |-> TRUE, ops |-> <<>>]

SpecLifecycle == LifecycleInit /\ [][LifecycleNext]_vars

FairChangesInit ==
  InitSettingsKey(MaxFairChanges) /\ NoListener /\ NoSenders /\ NoStore
  /\ NoPopup /\ NoPeers

\* The subscribers under fair delivery: chrome.storage.onChanged leaves no
\* reported event undispatched for ever.
FairChanges ==
  /\ FairChangesInit
  /\ [][ChangesNext]_vars
  /\ WF_vars(DispatchChange)

\* The popup gating features with the tier of the settings it holds.
GateInit == NoCoordinator /\ NoListener /\ NoSenders /\ NoStore /\ NoPopup /\ NoPeers

SpecGate == GateInit /\ [][GateNext]_vars

\* =================================================================== claims

IsUpdate(i) == reqs[i].message.type = "UPDATE_SETTINGS"

Payload(i) == reqs[i].message.payload

\* Request i's chrome.storage.sync.set resolved: its record was written.
Wrote(i) == IsUpdate(i) /\ reqs[i].writeVer > 0

DisjointUpdates(i, j) == DOMAIN Payload(i) \cap DOMAIN Payload(j) = {}

\* Both reads completed before either write, i wrote first, j wrote last and
\* nothing was written since.
Raced(i, j) ==
  /\ i # j /\ Wrote(i) /\ Wrote(j) /\ DisjointUpdates(i, j)
  /\ reqs[i].readVer < reqs[i].writeVer /\ reqs[i].readVer < reqs[j].writeVer
  /\ reqs[j].readVer < reqs[i].writeVer
  /\ reqs[i].writeVer < reqs[j].writeVer
  /\ version = reqs[j].writeVer

\* C1: when two update-settings requests with disjoint partial updates both
\* read before either writes, both answer success:true with no error, and the
\* persisted record is the later writer's merge: its own update laid over what
\* it had read, so every field of the earlier writer holds the value the later
\* writer read before the earlier write, whatever the earlier writer wrote.
C1_LastWriteWins ==
  \A i \in Ids, j \in Ids :
    Raced(i, j) =>
      /\ reqs[i].response.success /\ reqs[j].response.success
      /\ "error" \notin DOMAIN reqs[i].response
      /\ "error" \notin DOMAIN reqs[j].response
      /\ DOMAIN syncStore = SettingsKeys
      /\ \A k \in DOMAIN Payload(j) : syncStore[k] = Payload(j)[k]
      /\ \A k \in SettingsKeys \ DOMAIN Payload(j) :
           syncStore[k] = reqs[j].currentSettings[k]
      /\ \A k \in DOMAIN Payload(i) :
           syncStore[k] = reqs[j].currentSettings[k]

\* Two racing updates were both answered and the earlier writer's value is gone.
C1_Witness ==
  \E i \in Ids, j \in Ids :
    /\ Raced(i, j)
    /\ reqs[i].pc = "resolved" /\ reqs[j].pc = "resolved"
    /\ reqs[i].response.success /\ reqs[j].response.success
    /\ \E k \in DOMAIN Payload(i) : syncStore[k] # Payload(i)[k]

\* Request i's write completed before request j's read, j read exactly what i
\* wrote, and j's write is the last one.
Sequential(i, j) ==
  /\ i # j /\ Wrote(i) /\ Wrote(j) /\ DisjointUpdates(i, j)
  /\ reqs[j].readVer = reqs[i].writeVer
  /\ reqs[j].writeVer = reqs[i].writeVer + 1
  /\ version = reqs[j].writeVer

\* C2: when one update's write completes before the other update's read
\* starts, the final persisted record holds the fields of both updates.
C2_SequentialKeepsBoth ==
  \A i \in Ids, j \in Ids :
    Sequential(i, j) =>
      /\ \A k \in DOMAIN Payload(i) : syncStore[k] = Payload(i)[k]
      /\ \A k \in DOMAIN Payload(j) : syncStore[k] = Payload(j)[k]

\* updateUserSettings has returned for request i.
UpdateReturned(i) == IsUpdate(i) /\ reqs[i].updated # Undefined

\* C3: updateUserSettings returns null exactly when its read or its write
\* failed, and the merged record when both succeeded.
C3_NullOnEitherError ==
  \A i \in Ids :
    UpdateReturned(i) =>
      /\ (reqs[i].updated = Null) <=> (~reqs[i].readOk \/ ~Wrote(i))
      /\ reqs[i].updated # Null =>
           reqs[i].updated = ShallowMerge(reqs[i].currentSettings, Payload(i))

\* The listener was given a message whose tag an own handler is registered
\* under.
OwnHandler == ls.lookup = "own"

HandlerKind == handlers[ls.type].kind

\* C4: a handler that faults, by throwing or by returning a promise that
\* rejects, has its fault answered as {success:false, error:<message>} through
\* sendResponse, and nothing is thrown out of the listener.
C4_FaultBecomesFailure ==
  (ls.pc = "done" /\ OwnHandler /\ HandlerKind \in {"throw", "rejects"}
     /\ ls.sendThrew = 0)
    => /\ ls.ret # "threw"
       /\ Len(ls.sent) = 1
       /\ ls.sent[1].success = FALSE
       /\ ls.sent[1].error =
            IF handlers[ls.type].error.isError
              THEN handlers[ls.type].error.message ELSE "Unknown error"

\* C5: for a message with no handler, a synchronous handler, a handler whose
\* promise fulfils and one whose promise rejects, sendResponse has been invoked
\* exactly once when the dispatch is over, also when an invocation throws.
C5_ExactlyOneResponse ==
  (ls.pc = "done"
     /\ \/ ls.lookup = "none"
        \/ OwnHandler /\ HandlerKind \in {"value", "resolves", "rejects"})
    => Len(ls.sent) = 1

\* C6: a message whose tag no handler is registered under is answered
\* {success:false, error:"Unknown message type: <tag>"}; nothing is thrown, no
\* handler is invoked and the listener returns false.
C6_UnknownTagRejected ==
  (ls.pc # "idle" /\ ls.type \notin DOMAIN handlers /\ ls.sendThrew = 0)
    => /\ ls.sent = <<[success |-> FALSE,
                       error |-> "Unknown message type: " \o ls.type]>>
       /\ ls.ret = "false"
       /\ ls.result = "none"

\* C7: the listener returns true exactly when the handler returned a promise,
\* and then sendResponse is not invoked before the promise settles; when the
\* handler returned a plain value the response has been delivered when the
\* listener returns, and it returns false.
C7_ChannelOpenIffPromise ==
  /\ ls.pc # "idle" => (ls.ret = "true" <=> ls.result = "promise")
  /\ ls.pc = "awaiting" => ls.ret = "true" /\ ls.sent = <<>>
  /\ (ls.result = "value" /\ ls.sendThrew = 0)
       => /\ ls.ret = "false"
          /\ Len(ls.sent) = 1
          /\ OwnHandler => ls.sent[1] = handlers[ls.type].response

\* A handler returned a promise, the listener returned true, and the response
\* went out once the promise had settled.
C7_Witness ==
  /\ ls.pc = "done" /\ ls.result = "promise" /\ ls.ret = "true"
  /\ Len(ls.sent) = 1

\* C8: the promise of sendMessage and of sendMessageToTab never rejects: when
\* the runtime call fails it fulfils with {success:false, error:<message>},
\* with no data, and otherwise with the listener's response.
C8_SendersNeverReject ==
  snd.pc = "returned" =>
    /\ snd.result.settled = "fulfilled"
    /\ snd.outcome.ok => snd.result.value = snd.outcome.response
    /\ ~snd.outcome.ok =>
         /\ DOMAIN snd.result.value = {"success", "error"}
         /\ snd.result.value.success = FALSE
         /\ snd.result.value.error =
              IF snd.outcome.error.isError
                THEN snd.outcome.error.message ELSE "Unknown error"

\* sendMessageToTab returned a failed response for a tab nothing listens in.
C8_Witness ==
  /\ snd.pc = "returned" /\ snd.fn = "sendMessageToTab"
  /\ ~snd.outcome.ok /\ snd.result.value.success = FALSE

\* C9: every request sent to the coordinator is eventually resolved with a
\* response, success or failure, under fair scheduling.
C9_EveryRequestResolves ==
  \A i \in 1..MaxLiveRequests :
    (i \in Ids) ~>
      (/\ i \in Ids /\ reqs[i].pc = "resolved"
       /\ "success" \in DOMAIN reqs[i].response)

\* A request whose endpoint was unreachable resolved with a failed response.
C9_Witness ==
  \E i \in Ids :
    /\ reqs[i].pc = "resolved"
    /\ reqs[i].response =
         [success |-> FALSE,
          error |-> "Could not establish connection. Receiving end does not exist."]

\* The enumerated tabs that have an id.
WithId(enumerated) == {p \in DOMAIN enumerated : "id" \in DOMAIN enumerated[p]}

\* C10 as claimed: the returned map has exactly one entry for every tab
\* enumerated at call time.
C10_EntryForEveryTab ==
  bc.pc = "returned" =>
    Cardinality(DOMAIN bc.results) = Len(bc.enumerated)

\* C10, amended: the returned map has exactly one entry for every enumerated
\* tab that has an id and none for a tab without one; each entry is the
\* response of that tab's own send, success:false for a tab nothing listens
\* in; no send's failure ends the call early.
C10_EntryForEveryTabWithId ==
  bc.pc = "returned" =>
    /\ ~bc.rejected
    /\ DOMAIN bc.results = {bc.enumerated[p].id : p \in WithId(bc.enumerated)}
    /\ \A p \in WithId(bc.enumerated) :
         LET tab == bc.enumerated[p]
             r == bc.results[tab.id]
         IN  IF tab.listening
               THEN r = handleMessage(tab, bc.message)
               ELSE /\ r.success = FALSE
                    /\ r.error = ErrorMessage(bc.outcomes[tab.id].error, "Unknown error")

\* A broadcast returned the answers of a listening tab and of an unreachable
\* one, with a tab without id enumerated beside them.
C10_Witness ==
  /\ bc.pc = "returned"
  /\ \E p \in WithId(bc.enumerated), q \in WithId(bc.enumerated) :
       /\ bc.enumerated[p].listening /\ bc.results[bc.enumerated[p].id].success
       /\ ~bc.enumerated[q].listening /\ ~bc.results[bc.enumerated[q].id].success
  /\ WithId(bc.enumerated) # DOMAIN bc.enumerated

\* ------------------------------------------------- the settings store

\* The last store operation was a call of `name' that did not throw.
OpReturned(name) == op.name = name /\ op.result.settled = "fulfilled"

\* C11: the settings key is written by the background coordinator only: no
\* peer context (popup, options page, content script) ever completes a write
\* of it.
C11_OnlyCoordinatorWrites == writers \cap Peers = {}

C13_StoredWinsPerKey ==
  op.name = "getUserSettings" =>
    /\ op.result.settled = "fulfilled"
    /\ IF op.readOk /\ op.before # Undefined
         THEN /\ DOMAIN op.result.value = SettingsKeys \cup DOMAIN op.before
              /\ \A k \in DOMAIN op.result.value :
                   op.result.value[k] =
                     IF k \in DOMAIN op.before
                       THEN op.before[k] ELSE DEFAULT_USER_SETTINGS[k]
         ELSE op.result.value = DEFAULT_USER_SETTINGS

C13_Witness ==
  /\ OpReturned("getUserSettings") /\ op.readOk
  /\ op.before = [tier |-> "pro", enabled |-> FALSE]
  /\ op.result.value =
       [DEFAULT_USER_SETTINGS EXCEPT !.tier = "pro", !.enabled = FALSE]
  /\ prev.name = "getUserSettings"
  /\ prev.result.value = DEFAULT_USER_SETTINGS

\* The settings a read hands out while `stored' is under the settings key.
CurrentSettings(stored) ==
  [k \in SettingsKeys \cup OwnKeys(stored) |->
     IF k \in OwnKeys(stored) THEN stored[k] ELSE DEFAULT_USER_SETTINGS[k]]

\* C14: updateUserSettings(U) run on current settings S leaves every
\* top-level field U does not name equal to its value in S, in the record it
\* returns and in the record under the settings key afterwards.
C14_UntouchedFieldsKept ==
  op.name = "updateUserSettings" =>
    \A k \in DOMAIN CurrentSettings(op.before) \ DOMAIN op.arg :
      /\ op.result.value # Null =>
           op.result.value[k] = CurrentSettings(op.before)[k]
      /\ CurrentSettings(syncStore)[k] = CurrentSettings(op.before)[k]

\* C15: resetUserSettings() hands the store exactly the compiled-in defaults
\* whatever the record was before; once the store took them the record is
\* exactly the defaults, and a reset run right after such a reset leaves the
\* record as the first one left it.
C15_ResetIdempotent ==
  op.name = "resetUserSettings" =>
    /\ op.result.settled = "fulfilled"
    /\ op.arg = DEFAULT_USER_SETTINGS
    /\ op.result.value => syncStore = DEFAULT_USER_SETTINGS
    /\ (prev.name = "resetUserSettings" /\ prev.result.value) =>
         syncStore = op.before /\ syncStore = DEFAULT_USER_SETTINGS

C15_Witness ==
  /\ OpReturned("resetUserSettings") /\ op.result.value
  /\ prev.name = "resetUserSettings" /\ prev.result.value
  /\ nops = 2 /\ writers = {"options"}
  /\ syncStore = DEFAULT_USER_SETTINGS

\* C16: for a record X holding every default field, a getUserSettings() that
\* reads the store right after saveUserSettings(X) stored X returns a record
\* equal to X.
C16_RoundTrip ==
  ( /\ op.name = "getUserSettings" /\ op.readOk
    /\ prev.name = "saveUserSettings" /\ prev.result.value ) =>
      /\ op.result.settled = "fulfilled"
      /\ op.result.value = prev.arg

C16_Witness ==
  /\ OpReturned("getUserSettings") /\ op.readOk
  /\ prev.name = "saveUserSettings" /\ prev.result.value
  /\ prev.arg = [DEFAULT_USER_SETTINGS EXCEPT !.tier = "pro", !.theme = "dark"]
  /\ op.result.value.tier = "pro" /\ op.result.value.theme = "dark"

ReadOps == {"getStorageValue", "getLocalStorageValue"}

SetOps ==
  {"setStorageValue", "saveUserSettings", "resetUserSettings",
   "setLocalStorageValue"}

\* The value now under the key the last operation named.
StoredNow ==
  IF op.name = "setLocalStorageValue" THEN localStore[op.key]
                                      ELSE SyncArea[op.key]

\* C17: no store operation throws. A read whose backing-store call fails
\* yields the caller's default and one that succeeds yields the stored value
\* (the default when nothing is stored); a write, removal or clear yields
\* false when its backing-store call fails, leaving the store as it was, and
\* true when it succeeds, the store then holding what was asked.
C17_StoreNeverThrows ==
  /\ op.name # "none" => op.result.settled = "fulfilled"
  /\ op.name \in ReadOps =>
       op.result.value =
         IF op.readOk /\ op.before # Undefined THEN op.before ELSE op.arg
  /\ op.name \in SetOps =>
       /\ op.result.value = op.writeOk
       /\ StoredNow = IF op.writeOk THEN op.arg ELSE op.before
  /\ op.name = "removeStorageValue" =>
       /\ op.result.value = op.writeOk
       /\ StoredNow = IF op.writeOk THEN Undefined ELSE op.before
  /\ op.name = "clearStorage" =>
       /\ op.result.value = op.writeOk
       /\ op.writeOk => syncStore = Undefined /\ cache = Undefined
       /\ ~op.writeOk => syncStore = op.before

C17_Witness ==
  /\ OpReturned("removeStorageValue") /\ ~op.writeOk
  /\ op.result.value = FALSE
  /\ op.before # Undefined /\ StoredNow = op.before
  /\ prev.name = "getStorageValue" /\ prev.result.value = Fallback

\* ------------------------------------------- settings-change subscription

\* C18: the callback given to onUserSettingsChange is invoked only for an
\* event of the 'sync' area that contains the settings key: an event of
\* unrelated keys, or one of the local store, never invokes it.
C18_OnlySettingsKeyOfSync ==
  \A s \in Subscribers :
    subs[s].last # Undefined =>
      /\ subs[s].last.areaName = "sync"
      /\ USER_SETTINGS \in subs[s].last.keys

C18_Witness ==
  \E s \in Subscribers :
    /\ <<"local", {USER_SETTINGS}>> \in subs[s].heard
    /\ <<"sync", {CACHE}>> \in subs[s].heard
    /\ subs[s].last = Undefined

\* C19: each time the callback is invoked its first argument is the change's
\* new value shallow-merged onto the defaults (exactly the defaults when the
\* key was removed and there is no new value) and its second argument is the
\* raw previous value, undefined on the first write of the key.
C19_MergedNewRawOld ==
  \A s \in Subscribers :
    subs[s].last # Undefined =>
      /\ subs[s].last.args.newSettings =
           CurrentSettings(subs[s].last.change.newValue)
      /\ subs[s].last.change.newValue = Undefined =>
           subs[s].last.args.newSettings = DEFAULT_USER_SETTINGS
      /\ subs[s].last.args.oldSettings = subs[s].last.change.oldValue

C19_Witness ==
  \E s \in Subscribers :
    /\ subs[s].last # Undefined
    /\ subs[s].last.change.newValue = [notifications |-> [enabled |-> FALSE]]
    /\ subs[s].last.args.oldSettings = Undefined
    /\ subs[s].last.args.newSettings =
         [DEFAULT_USER_SETTINGS EXCEPT !.notifications = [enabled |-> FALSE]]

\* C20: invoking the handle onUserSettingsChange returned removes the
\* listener that call registered and no other; from then on that listener's
\* callback is not invoked again, and a further invocation of the handle
\* changes nothing.
C20_UnsubscribeExactlyOwn ==
  [][\A s \in Subscribers :
       /\ subs'[s].unsubscribed # subs[s].unsubscribed =>
            onChanged' = onChanged \ {s}
       /\ (subs[s].unsubscribed = "once" /\ subs'[s].unsubscribed = "again") =>
            onChanged' = onChanged
       /\ subs'[s].unsubscribed # "no" => s \notin onChanged'
       /\ subs[s].unsubscribed # "no" => subs'[s].last = subs[s].last]_vars

C20_Witness ==
  /\ subs[1].unsubscribed = "again" /\ subs[1].last # Undefined
  /\ 2 \in onChanged /\ subs[2].last # Undefined
  /\ subs[1].last.seq < subs[2].last.seq
  /\ pending = <<>>

\* ---------------------------------------------------------------------- C21

\* C21: hasFeatureAccess answers every pair of a tier and a feature key with
\* a boolean: true for every key when the tier is pro, and for the free tier
\* true exactly when the feature requires the free tier, which only
\* basic_feature does.
C21_GateTotalAndTiered ==
  \A f \in DOMAIN gate.checked :
    LET c == gate.checked[f]
    IN  /\ c.hasAccess \in BOOLEAN
        /\ c.tier = "pro" => c.hasAccess = TRUE
        /\ c.tier = "free" => (c.hasAccess <=> f = "basic_feature")

\* Every feature key was gated, some under each tier, with both answers.
C21_Witness ==
  /\ DOMAIN gate.checked = FeatureKeys
  /\ gate.checked["basic_feature"] = [tier |-> "free", hasAccess |-> TRUE]
  /\ gate.checked["export_data"] = [tier |-> "free", hasAccess |-> FALSE]
  /\ gate.checked["custom_themes"] = [tier |-> "pro", hasAccess |-> TRUE]
  /\ gate.checked["priority_support"].tier = "pro"
  /\ gate.checked["advanced_analytics"].tier = "free"

\* ---------------------------------------------------------------------- C22

\* A response that says success: false.
IsFailure(r) == "success" \in DOMAIN r /\ r.success = FALSE

\* It has no data field and its error field is a string.
FailureShape(r) ==
  IsFailure(r) =>
    /\ "data" \notin DOMAIN r
    /\ "error" \in DOMAIN r
    /\ r.error \in STRING

\* C22: every Response with success = false the core produces (a handler of
\* the coordinator, the listener's unknown-tag and rejected-handler paths,
\* sendMessage and sendMessageToTab on a transport failure) has no data field
\* and has an error string.
C22_FailureHasErrorNoData ==
  /\ \A i \in Ids : FailureShape(reqs[i].response)
  /\ \A k \in DOMAIN ls.sent : FailureShape(ls.sent[k])
  /\ snd.pc = "returned" /\ snd.result.settled = "fulfilled"
       => FailureShape(snd.result.value)
  /\ \A id \in DOMAIN bc.results : FailureShape(bc.results[id])

\* A handler failed: the write of an update was refused and the peer got the
\* failure.
C22_Witness ==
  /\ Len(reqs) = 1
  /\ reqs[1].pc = "resolved"
  /\ IsUpdate(1)
  /\ reqs[1].response = [success |-> FALSE, error |-> "Failed to update settings"]

\* The other producers of a failure, each reached in SpecCore as well.
C22_TransportFailed ==
  /\ Len(reqs) = 1
  /\ reqs[1].pc = "resolved"
  /\ reqs[1].response = [success |-> FALSE, error |-> "Unknown error"]

C22_UnknownTag ==
  /\ ls.pc = "done"
  /\ ls.lookup = "none"
  /\ ls.sent = <<UnknownTypeResponse("NOT_A_REAL_TAG")>>

C22_HandlerRejected ==
  /\ ls.pc = "done"
  /\ ls.sent = <<RejectedResponse(ErrorOf("handler failed"))>>

C22_TabUnreachable ==
  /\ bc.pc = "returned"
  /\ \E id \in DOMAIN bc.results : IsFailure(bc.results[id])

\* ---------------------------------------------------------------------- C23

\* The handler of request i answered (the peer may have the answer already).
Answered(i) ==
  \/ reqs[i].pc = "settled"
  \/ reqs[i].pc = "resolved" /\ "success" \in DOMAIN reqs[i].response
                              /\ reqs[i].response.success = TRUE

TypeOf(i) == reqs[i].message.type

\* C23: every response of the coordinator with success = true carries a data
\* field for GET_TAB_INFO, GET_SETTINGS, UPDATE_SETTINGS and
\* CHECK_FEATURE_ACCESS (also when the access result is false) and none for
\* CONTENT_SCRIPT_READY, which answers success: true for every sender.
C23_SuccessDataPerTag ==
  \A i \in Ids :
    LET resp == reqs[i].response
    IN  Answered(i) =>
          /\ TypeOf(i) = "CONTENT_SCRIPT_READY" =>
                resp.success = TRUE /\ "data" \notin DOMAIN resp
          /\ TypeOf(i) = "CHECK_FEATURE_ACCESS" /\ resp.success = TRUE =>
                "data" \in DOMAIN resp /\ resp.data \in BOOLEAN
          /\ TypeOf(i) \in {"GET_TAB_INFO", "GET_SETTINGS", "UPDATE_SETTINGS"}
              /\ resp.success = TRUE =>
                "data" \in DOMAIN resp /\ resp.data # Undefined
                /\ resp.data # Null

\* Access to a pro feature was refused to the free tier: success with data
\* false.
C23_Witness ==
  /\ Len(reqs) = 1
  /\ reqs[1].pc = "resolved"
  /\ reqs[1].message =
       [type |-> "CHECK_FEATURE_ACCESS", payload |-> [feature |-> "priority_support"]]
  /\ reqs[1].response = [success |-> TRUE, data |-> FALSE]

\* The popup, which is no content script, announced itself and was answered.
C23_ReadyFromAnySender ==
  /\ Len(reqs) = 1
  /\ reqs[1].pc = "resolved"
  /\ TypeOf(1) = "CONTENT_SCRIPT_READY"
  /\ reqs[1].sender.tab = Undefined
  /\ reqs[1].response = [success |-> TRUE]

\* ---------------------------------------------------------------------- C24

IsTabInfo(i) == TypeOf(i) = "GET_TAB_INFO"

\* The response describing `tab'.
AboutTab(tab) ==
  [success |-> TRUE,
   data |-> [id |-> tab.id, url |-> tab.url, title |-> tab.title]]

\* C24 as stated: GET_TAB_INFO answers with the sender's own tab whenever the
\* sender has one, and the active-tab query is not consulted then.
C24_SenderTabWheneverPresent ==
  \A i \in Ids :
    IsTabInfo(i) /\ reqs[i].sender.tab # Undefined =>
      /\ reqs[i].pc # "querying"
      /\ reqs[i].pc = "settled" =>
            /\ reqs[i].response.success = TRUE
            /\ reqs[i].response.data.url = reqs[i].sender.tab.url
            /\ reqs[i].response.data.title = reqs[i].sender.tab.title

\* The handler starts: it answers at once, or awaits the active-tab query.
TabInfoStarts(i) ==
  /\ i \in Ids
  /\ IsTabInfo(i)
  /\ reqs[i].pc = "sent"
  /\ reqs'[i].pc \in {"settled", "querying"}

\* C24, amended: GET_TAB_INFO answers with the sender's own tab whenever the
\* sender has a tab with an id, without consulting the active-tab query;
\* otherwise (no sender tab, or one without an id) it queries the active tab
\* of the current window and answers with it when the query resolves with a
\* tab that has an id, and with success: false and an error when the query
\* yields no such tab or rejects.
C24_SenderTabWithIdElseActive ==
  [][\A i \in 1..MaxHandled :
       /\ TabInfoStarts(i) =>
             IF reqs[i].sender.tab # Undefined /\ "id" \in DOMAIN reqs[i].sender.tab
               THEN /\ reqs'[i].pc = "settled"
                    /\ reqs'[i].response = AboutTab(reqs[i].sender.tab)
               ELSE reqs'[i].pc = "querying"
       /\ \A o \in HandledQueryOutcomes :
             i \in Ids /\ TabsQuery(i, o) =>
               IF o.ok /\ o.tab # Undefined /\ "id" \in DOMAIN o.tab
                 THEN reqs'[i].response = AboutTab(o.tab)
                 ELSE reqs'[i].response =
                        [success |-> FALSE,
                         error |-> IF o.ok THEN "No active tab found"
                                   ELSE IF o.error.isError THEN o.error.message
                                   ELSE "Failed to get tab info"]]_vars

\* A sender whose tab has no id was answered with the active tab.
C24_Witness ==
  /\ Len(reqs) = 1
  /\ IsTabInfo(1)
  /\ reqs[1].sender.tab # Undefined
  /\ "id" \notin DOMAIN reqs[1].sender.tab
  /\ reqs[1].pc = "resolved"
  /\ reqs[1].response =
       [success |-> TRUE, data |-> [id |-> 3, url |-> "", title |-> "Active"]]

\* A content script was answered with its own tab.
C24_OwnTab ==
  /\ Len(reqs) = 1
  /\ IsTabInfo(1)
  /\ reqs[1].pc = "resolved"
  /\ reqs[1].response = AboutTab(ContentTab)

\* ---------------------------------------------------------------------- C25

\* C25: UPDATE_SETTINGS answers {success: true, data: the merged record}
\* exactly when updateUserSettings returned a record, and success: false when
\* it returned null; it never reports success for an update that was not
\* persisted.
C25_SuccessIffPersisted ==
  \A i \in Ids :
    UpdateReturned(i) =>
      LET r == reqs[i]
          merged == [k \in DOMAIN r.currentSettings \cup DOMAIN Payload(i) |->
                       IF k \in DOMAIN Payload(i) THEN Payload(i)[k]
                                                  ELSE r.currentSettings[k]]
      IN  /\ r.updated # Null =>
                r.response = [success |-> TRUE, data |-> merged]
          /\ r.updated = Null =>
                r.response.success = FALSE /\ "data" \notin DOMAIN r.response
          /\ r.response.success = TRUE =>
                /\ r.updated = merged
                /\ Wrote(i)
                /\ version = r.writeVer => syncStore = r.response.data

\* One update was persisted and answered with its record, which the store
\* holds; the write of another was refused and it was answered a failure.
C25_Witness ==
  /\ Len(reqs) = 2
  /\ UpdateReturned(1) /\ UpdateReturned(2)
  /\ reqs[1].pc = "resolved" /\ reqs[2].pc = "resolved"
  /\ reqs[1].response.success = TRUE
  /\ reqs[1].response.data = syncStore
  /\ reqs[2].updated = Null
  /\ reqs[2].response.success = FALSE

\* ---------------------------------------------------------------------- C26

\* The tier of the settings the key holds: the default tier when nothing is
\* stored or the stored object names no tier.
TierHeld(stored) ==
  IF stored # Undefined /\ "tier" \in DOMAIN stored
    THEN stored.tier
    ELSE DEFAULT_USER_SETTINGS.tier

\* The feature gate, from the table of spec section 4.3.
Gate(tier, feature) == feature = "basic_feature" \/ tier = "pro"

\* The CHECK_FEATURE_ACCESS handler of request i read the settings and no
\* write of the key completed since.
CheckedNow(i) ==
  /\ TypeOf(i) = "CHECK_FEATURE_ACCESS"
  /\ reqs[i].pc \in {"settled", "resolved"}
  /\ reqs[i].readVer = version

C26_AccessByTierRead ==
  \A i \in Ids :
    CheckedNow(i) /\ reqs[i].readOk =>
      reqs[i].response =
        [success |-> TRUE,
         data |-> Gate(TierHeld(syncStore), Payload(i).feature)]

\* Access to a pro feature was granted after an update to the pro tier.
C26_GrantedAfterUpgrade ==
  /\ Len(reqs) = 2
  /\ Wrote(1) /\ Payload(1) = [tier |-> "pro"]
  /\ CheckedNow(2) /\ reqs[2].readOk
  /\ Payload(2).feature = "export_data"
  /\ reqs[2].response = [success |-> TRUE, data |-> TRUE]

\* ---------------------------------------------------------------------- C27

\* The lifecycle of spec section 8: get, update({tier: 'pro'}), reset, get.
Lifecycle ==
  <<"getUserSettings", "updateUserSettings", "resetUserSettings",
    "getUserSettings">>

\* The run so far is a prefix of the lifecycle, from an empty store, every
\* chrome.storage call of it having resolved.
OnLifecycle ==
  /\ log.on
  /\ Len(log.ops) <= Len(Lifecycle)
  /\ \A k \in DOMAIN log.ops :
       /\ log.ops[k].name = Lifecycle[k]
       /\ log.ops[k].readOk /\ log.ops[k].writeOk

\* The settings key after the k-th operation of the run.
StoredAfter(k) ==
  IF k < Len(log.ops) THEN log.ops[k + 1].before ELSE syncStore

Defaults ==
  [tier |-> "free", enabled |-> TRUE, theme |-> "system",
   notifications |-> [enabled |-> TRUE, sound |-> FALSE],
   preferences |-> <<>>]

DefaultsPro == [Defaults EXCEPT !.tier = "pro"]

\* C27: starting with no stored record, getUserSettings() returns the
\* defaults (tier free, enabled true, theme system); then
\* updateUserSettings({tier: 'pro'}) returns the defaults with tier pro and
\* persists that record; then resetUserSettings(); then getUserSettings()
\* returns the defaults again.
C27_Lifecycle ==
  OnLifecycle =>
    \A k \in DOMAIN log.ops :
      /\ k = 1 => /\ log.ops[1].before = Undefined
                  /\ log.ops[1].result = Fulfilled(Defaults)
                  /\ StoredAfter(1) = Undefined
      /\ k = 2 => /\ log.ops[2].arg = [tier |-> "pro"]
                  /\ log.ops[2].result = Fulfilled(DefaultsPro)
                  /\ StoredAfter(2) = DefaultsPro
      /\ k = 3 => /\ log.ops[3].result = Fulfilled(TRUE)
                  /\ StoredAfter(3) = Defaults
      /\ k = 4 => /\ log.ops[4].result = Fulfilled(Defaults)
                  /\ StoredAfter(4) = Defaults

\* The whole lifecycle ran.
C27_Witness ==
  /\ OnLifecycle
  /\ Len(log.ops) = Len(Lifecycle)
  /\ log.ops[2].result.value.tier = "pro"
  /\ log.ops[4].result.value.tier = "free"

\* ---------------------------------------------------------------------- C28

\* The n-th write changed the settings key to v (Undefined: removed it) and
\* its event is not dispatched yet.
SettingsEventPending(n, v) ==
  \E k \in DOMAIN pending :
    /\ pending[k].seq = n
    /\ pending[k].areaName = "sync"
    /\ USER_SETTINGS \in DOMAIN pending[k].changes
    /\ pending[k].changes[USER_SETTINGS].newValue = v

\* The callback of subscriber s was invoked for the n-th write with the
\* record v merged onto the defaults.
Notified(s, n, v) ==
  /\ subs[s].last # Undefined
  /\ subs[s].last.seq = n
  /\ subs[s].last.args.newSettings = CurrentSettings(v)

WrittenValues == ChangedSettings

\* C28 as stated: after every write that changes the value of the settings
\* key, every listener subscribed at that time is eventually invoked with
\* the new record.
C28_EverySubscriberNotified ==
  \A s \in Subscribers, n \in 1..MaxFairChanges, v \in WrittenValues :
    (SettingsEventPending(n, v) /\ s \in onChanged) ~> Notified(s, n, v)

\* C28, amended: after every write that changes the value of the settings
\* key, every listener subscribed at that time is eventually invoked with
\* the new record, unless its unsubscribe handle is invoked before the event
\* is dispatched to it.
C28_NotifiedUnlessUnsubscribed ==
  \A s \in Subscribers, n \in 1..MaxFairChanges, v \in WrittenValues :
    (SettingsEventPending(n, v) /\ s \in onChanged)
      ~> (Notified(s, n, v) \/ subs[s].unsubscribed # "no")

\* Both subscribers were given the record of a write, no request having been
\* sent.
C28_Witness ==
  /\ reqs = <<>>
  /\ pending = <<>>
  /\ \A s \in {1, 2} :
       /\ s \in onChanged
       /\ Notified(s, 1, [DEFAULT_USER_SETTINGS EXCEPT !.tier = "pro",
                                                       !.theme = "dark"])

\* ---------------------------------------------------------------------- C29

\* The ids of the tabs of the enumeration.
EnumeratedIds(enumerated) ==
  {enumerated[p].id : p \in WithId(enumerated)}

\* The tabs opened after the enumeration was made.
LateTabs == {p \in DOMAIN tabs : p \notin DOMAIN bc.enumerated}

\* The tab ids a message was sent to, and those with an entry in the map.
SentTo == DOMAIN bc.outcomes
Entries == DOMAIN bc.results

\* C29: broadcastToAllTabs sends only to the tabs the one enumeration made at
\* call time returned: the enumeration is not made again while sends are in
\* flight, and a tab that appears after it receives no message and has no
\* entry in the returned map.
C29_OnlyEnumeratedTabs ==
  [][/\ bc.pc = "querying" /\ bc'.pc = "sending" => bc'.enumerated = tabs
     /\ bc.pc \in {"sending", "returned"} => bc'.enumerated = bc.enumerated
     /\ SentTo' \subseteq EnumeratedIds(bc.enumerated)'
     /\ Entries' \subseteq EnumeratedIds(bc.enumerated)'
     /\ bc'.pc \in {"sending", "returned"} =>
          \A p \in LateTabs' :
            "id" \in DOMAIN tabs'[p] => tabs'[p].id \notin SentTo' \cup Entries']_vars

\* A tab with an id and a listening content script opened while the sends
\* were in flight; the broadcast returned entries for the enumerated tabs
\* and none for it.
C29_Witness ==
  /\ bc.pc = "returned"
  /\ Entries = EnumeratedIds(bc.enumerated)
  /\ Entries # {}
  /\ \E p \in LateTabs :
       /\ "id" \in DOMAIN tabs[p]
       /\ tabs[p].listening
       /\ tabs[p].id \notin SentTo \cup Entries

\* ---------------------------------------------------------------------- C30

\* What getUserSettings gives a handler that reads the key now: the stored
\* record laid over the defaults, the defaults when the read failed.
ReadNow(readOk) == IF readOk THEN CurrentSettings(syncStore) ELSE Defaults

\* The answers GET_TAB_INFO may give once it asked for the active tab.
ActiveTabAnswers ==
  {AboutTab(t) : t \in {t \in ActiveTabs : t # Undefined /\ "id" \in DOMAIN t}}
  \cup {[success |-> FALSE, error |-> e] :
          e \in {"No active tab found", "Failed to get tab info"}
                \cup {x.message : x \in {y \in TransportErrors : y.isError}}}

\* The handler of request i answers in this step, given the store as it is
\* and the request alone.
AnswersFromStore(i) ==
  LET r == reqs[i]
      t == reqs'[i]
      type == r.message.type
  IN  /\ type = "GET_SETTINGS" =>
            t.response = [success |-> TRUE, data |-> ReadNow(t.readOk)]
      /\ type = "CHECK_FEATURE_ACCESS" =>
            t.response =
              [success |-> TRUE,
               data |-> Gate(ReadNow(t.readOk).tier, r.message.payload.feature)]
      /\ type = "GET_TAB_INFO" =>
            IF r.pc = "sent" THEN t.response = AboutTab(r.sender.tab)
                             ELSE t.response \in ActiveTabAnswers
      /\ type = "CONTENT_SCRIPT_READY" => t.response = [success |-> TRUE]
      /\ type = "PERFORM_ACTION" =>
            t.response =
              [success |-> TRUE, data |-> [message |-> "Action performed"]]
      /\ type = "UPDATE_SETTINGS" =>
            \/ t.response =
                 [success |-> TRUE,
                  data |-> [k \in DOMAIN r.currentSettings \cup DOMAIN Payload(i) |->
                              IF k \in DOMAIN Payload(i)
                                THEN Payload(i)[k] ELSE r.currentSettings[k]]]
            \/ t.response =
                 [success |-> FALSE, error |-> "Failed to update settings"]

\* C30: the handlers of GET_SETTINGS, GET_TAB_INFO, CONTENT_SCRIPT_READY,
\* PERFORM_ACTION and CHECK_FEATURE_ACCESS leave the settings record as it
\* is, only the write of an UPDATE_SETTINGS changes it; no handler keeps
\* state between requests: a step of one request leaves the other requests
\* alone, an update reads the settings afresh, and every answer is
\* determined by the store as it is when the handler reads it and by the
\* request.
C30_StatelessHandlers ==
  [][\A i \in 1..MaxServed :
       i \in Ids /\ reqs'[i] # reqs[i] =>
         /\ \A j \in Ids \ {i} : reqs'[j] = reqs[j]
         /\ syncStore' # syncStore =>
               IsUpdate(i) /\ reqs[i].pc = "writing"
         /\ reqs[i].pc = "reading" /\ reqs'[i].pc = "writing" =>
               reqs'[i].currentSettings = ReadNow(reqs'[i].readOk)
         /\ reqs'[i].pc = "settled" => AnswersFromStore(i)]_vars

\* A GET_SETTINGS request read the key after an update wrote it: it was
\* answered with the record the update persisted, which the store holds.
C30_Witness ==
  /\ Len(reqs) = 2
  /\ Wrote(1)
  /\ TypeOf(2) = "GET_SETTINGS"
  /\ reqs[2].pc = "resolved"
  /\ reqs[2].readVer = reqs[1].writeVer
  /\ reqs[2].readOk
  /\ reqs[2].response = [success |-> TRUE, data |-> syncStore]
  /\ syncStore = reqs[1].response.data

\* ------------------------------------------------------------ claim C31

\* The update of the last updateUserSettings call names notifications, with
\* an object that lacks a sibling field.
PartialNotifications ==
  /\ op.name = "updateUserSettings"
  /\ "notifications" \in DOMAIN op.arg
  /\ DOMAIN op.arg.notifications # DOMAIN DEFAULT_USER_SETTINGS.notifications

\* C31: updateUserSettings replaces top-level keys wholesale: for an update
\* whose notifications object N lacks a sibling field, the notifications of
\* the record it returns and of the record the store took equal exactly N,
\* so the previous notifications.sound is dropped, not merged.
C31_TopLevelKeysReplaced ==
  (PartialNotifications /\ op.writeOk) =>
    /\ op.result.value.notifications = op.arg.notifications
    /\ syncStore.notifications = op.arg.notifications

\* An update {notifications: {enabled: false}} ran on a record whose
\* notifications held sound, and sound is gone from the persisted record.
C31_Witness ==
  /\ PartialNotifications /\ op.writeOk /\ op.readOk
  /\ op.before # Undefined
  /\ "sound" \in DOMAIN op.before.notifications
  /\ "sound" \notin DOMAIN syncStore.notifications
  /\ "sound" \notin DOMAIN op.result.value.notifications

\* ------------------------------------------------------------ claim C32

\* No answer is on its way to a page and every page heard every change event.
Quiescent ==
  /\ ui.replies = {}
  /\ \A p \in DOMAIN ui.heard : ui.heard[p] = Len(pending)

\* C32: once every update-settings request has been answered and every
\* change event has been delivered, the settings copy each subscribed page
\* (popup, options) holds equals the persisted record merged with the
\* defaults, however the events, the answers and the direct resets interleave.
C32_CopiesMatchAtQuiescence ==
  Quiescent =>
    \A p \in DOMAIN ui.settings : ui.settings[p] = CurrentSettings(syncStore)

\* ------------------------------------------------------------ claim C33

\* The step is the continuation of call c after its settings response.
Continues(c) ==
  /\ c \in DOMAIN cs.calls
  /\ cs.calls[c].pc = "awaitSettings"
  /\ cs'.calls[c].pc = "returned"

\* C33: the content script runs setupContentScript only when the settings
\* response initialize received was successful and carried enabled = true;
\* with enabled = false or a failed response setup does not run, initialize
\* still marks the script initialized, and an initialize call made after that
\* does nothing: no notification, no request, no setup.
C33_SetupOnlyWhenEnabled ==
  [][\A c \in DOMAIN cs'.calls :
       /\ Continues(c) =>
            /\ cs'.setups - cs.setups =
                 IF /\ cs'.calls[c].response.success
                    /\ cs'.calls[c].response.data.enabled
                   THEN 1 ELSE 0
            /\ cs'.isInitialized
       /\ (c \notin DOMAIN cs.calls /\ cs.isInitialized) =>
            /\ cs'.calls[c].pc = "returned"
            /\ cs' = [cs EXCEPT !.calls = cs'.calls]]_vars

\* initialize got settings with enabled = false: setup never ran, and a later
\* call returned at once.
C33_Witness ==
  /\ Len(cs.calls) = 2
  /\ cs.calls[1].pc = "returned" /\ ~cs.calls[1].skipped
  /\ cs.calls[1].response.success
  /\ ~cs.calls[1].response.data.enabled
  /\ cs.calls[2].skipped
  /\ cs.setups = 0 /\ cs.ready = 1 /\ cs.isInitialized

\* initialize got a failed settings response and marked the script
\* initialized without running setup.
C33_FailedResponse ==
  /\ Len(cs.calls) >= 1
  /\ cs.calls[1].pc = "returned" /\ ~cs.calls[1].skipped
  /\ ~cs.calls[1].response.success
  /\ cs.setups = 0 /\ cs.isInitialized

\* ------------------------------------------------------------ claim C36

\* C36: in one content-script context the ready notification is sent and
\* setupContentScript is run at most once, across any number of initialize()
\* calls, overlapping ones included.
C36_AtMostOnce == cs.ready <= 1 /\ cs.setups <= 1

\* Calls that do not overlap: the notification and setup happen once.
C36_OnceWhenSequential ==
  [][(Len(cs'.calls) > Len(cs.calls) /\ cs.ready >= 1
        /\ \A c \in DOMAIN cs.calls : cs.calls[c].pc = "returned")
       => (cs'.ready = cs.ready /\ cs'.setups = cs.setups)]_vars

\* ------------------------------------------------------------ claim C34

\* The last operation was an updateUserSettings call that returned null.
UpdateFailed == op.name = "updateUserSettings" /\ op.result.value = Null

\* C34: whenever updateUserSettings returns null, and the UPDATE_SETTINGS
\* handler so answers success:false, the record under the settings key is
\* exactly what it was before the call: a failed update leaves no partial or
\* changed record behind.
C34_FailedUpdateChangesNothing ==
  UpdateFailed =>
    /\ syncStore = op.before
    /\ ~UpdateSettingsResponse(op.result.value).success

\* An update that would have changed the stored record returned null.
C34_Witness ==
  /\ UpdateFailed
  /\ op.before # Undefined
  /\ NewSettings(CurrentSettings(op.before), op.arg) # op.before

\* The same among concurrent requests: the step in which a request's
\* updateUserSettings returns null leaves the record as it finds it.
C34_FailingStepWritesNothing ==
  [][\A i \in DOMAIN reqs :
       (reqs[i].updated = Undefined /\ reqs'[i].updated = Null)
         => (syncStore' = syncStore /\ ~reqs'[i].response.success)]_vars

\* ------------------------------------------------------------ claim C35

\* Request i is a GET_SETTINGS or CHECK_FEATURE_ACCESS whose handler has read
\* the store and answered.
ReadAndAnswered(i) ==
  /\ TypeOf(i) \in {"GET_SETTINGS", "CHECK_FEATURE_ACCESS"}
  /\ reqs[i].readVer >= 0

\* C35: the GET_SETTINGS and CHECK_FEATURE_ACCESS handlers always answer
\* success:true, also when the read of the backing store fails: GET_SETTINGS
\* then returns the defaults and CHECK_FEATURE_ACCESS evaluates access for
\* the default tier 'free', whatever tier is persisted.
C35_ReadFailureAnsweredFromDefaults ==
  \A i \in DOMAIN reqs :
    ReadAndAnswered(i) =>
      /\ reqs[i].response.success = TRUE
      /\ ~reqs[i].readOk =>
           IF TypeOf(i) = "GET_SETTINGS"
             THEN reqs[i].response.data = Defaults
             ELSE reqs[i].response.data =
                    Gate("free", reqs[i].message.payload.feature)

\* The store holds tier 'pro' and a check of a pro feature whose read failed
\* was answered success:true with access refused.
C35_Witness ==
  /\ Len(reqs) = 2
  /\ Wrote(1) /\ syncStore.tier = "pro"
  /\ TypeOf(2) = "CHECK_FEATURE_ACCESS"
  /\ reqs[2].readVer = reqs[1].writeVer
  /\ ~reqs[2].readOk
  /\ reqs[2].pc = "resolved"
  /\ reqs[2].response = [success |-> TRUE, data |-> FALSE]

\* The store holds a record other than the defaults and a GET_SETTINGS whose
\* read failed was answered success:true with the defaults.
C35_DefaultsReturned ==
  /\ Len(reqs) >= 1
  /\ TypeOf(1) = "GET_SETTINGS"
  /\ reqs[1].readVer >= 0 /\ ~reqs[1].readOk
  /\ syncStore # Undefined /\ syncStore # Defaults
  /\ reqs[1].response = [success |-> TRUE, data |-> Defaults]

\* ------------------------------------------------------------ claim C37

\* Some updateUserSettings or resetUserSettings call has succeeded.
SomeCallSucceeded == version > 0 \/ "options" \in writers

\* C37: after any sequence of successful updateUserSettings and
\* resetUserSettings calls, however they interleave, the record under the
\* settings key contains every top-level key of the default schema: tier,
\* enabled, theme, notifications, preferences.
C37_PersistedHasEveryKey ==
  SomeCallSucceeded =>
    /\ syncStore # Undefined
    /\ {"tier", "enabled", "theme", "notifications", "preferences"}
         \subseteq DOMAIN syncStore

\* An update read a legacy record without most of the fields, a reset
\* succeeded, then the update's write succeeded: the record holds what the
\* update read, with every key.
C37_Witness ==
  /\ Len(reqs) = 1
  /\ "options" \in writers
  /\ reqs[1].readOk /\ reqs[1].writeVer = 1
  /\ op.before = [tier |-> "pro", enabled |-> FALSE]
  /\ syncStore.enabled = FALSE
  /\ DOMAIN syncStore = SettingsKeys

====
